---- MODULE Spec2Model ----
(***************************************************************************)
(* arc-local-store-preferences: the value codec (wrap/unwrap), the         *)
(* Preferences Store and the debounced Workspace Store over localStorage.  *)
(* Two variants of each element exist in the repository: the legacy        *)
(* Polymer element ("polymer") and the current LitElement ("lit").         *)
(*                                                                         *)
(* JavaScript strings are sequences of one-character strings, so that      *)
(* indexOf/substr/concatenation and the JSON text are computed character   *)
(* by character.  JavaScript values are tagged tuples.                     *)
(***************************************************************************)
EXTENDS Integers, Sequences, FiniteSets, TLC

\* ------------------------------------------------------------------------
\* JavaScript values
\* ------------------------------------------------------------------------
Undefined == <<"undefined">>
Null == <<"null">>
Bool(b) == <<"boolean", b>>
Num(n) == <<"number", n>>
Str(s) == <<"string", s>>
Arr(xs) == <<"array", xs>>
\* an object is the sequence of its own properties <<name, value>>, in
\* insertion order (names are strings, unique)
Obj(ps) == <<"object", ps>>

Tag(v) == v[1]

\* ToBoolean(v) is false
Falsy(v) ==
  \/ Tag(v) \in {"undefined", "null"}
  \/ (Tag(v) = "boolean" /\ ~v[2])
  \/ (Tag(v) = "number" /\ v[2] = 0)
  \/ (Tag(v) = "string" /\ v[2] = <<>>)

\* index of property name k in the property list ps, 0 when absent
RECURSIVE PropIndex(_, _, _)
PropIndex(ps, k, i) ==
  IF i > Len(ps) THEN 0
  ELSE IF ps[i][1] = k THEN i
  ELSE PropIndex(ps, k, i + 1)

\* o[k] = v on a property list: replace in place or append
PropSet(ps, k, v) ==
  LET i == PropIndex(ps, k, 1) IN
  IF i = 0 THEN Append(ps, <<k, v>>)
  ELSE [ps EXCEPT ![i] = <<k, v>>]

\* v.k for a value v that is neither null nor undefined
GetProp(v, k) ==
  IF Tag(v) # "object" THEN Undefined
  ELSE LET i == PropIndex(v[2], k, 1) IN
       IF i = 0 THEN Undefined ELSE v[2][i][2]

\* Object.keys(v)
ObjectKeys(v) == [i \in 1..Len(v[2]) |-> v[2][i][1]]

\* ------------------------------------------------------------------------
\* Text
\* ------------------------------------------------------------------------
DigitChars == <<"0", "1", "2", "3", "4", "5", "6", "7", "8", "9">>
Digits == {DigitChars[i] : i \in 1..10}

DigitValue(c) == CHOOSE d \in 0..9 : DigitChars[d + 1] = c

RECURSIVE NatToString(_)
NatToString(n) ==
  IF n < 10 THEN <<DigitChars[n + 1]>>
  ELSE NatToString(n \div 10) \o <<DigitChars[(n % 10) + 1]>>

\* Number.prototype.toString for an integer
NumberToString(n) ==
  IF n < 0 THEN <<"-">> \o NatToString(0 - n) ELSE NatToString(n)

\* s.indexOf(p) === 0
StartsWith(s, p) ==
  /\ Len(p) <= Len(s)
  /\ SubSeq(s, 1, Len(p)) = p

\* s.substr(n)
Substr(s, n) == SubSeq(s, n + 1, Len(s))

\* ------------------------------------------------------------------------
\* JSON.stringify
\* ------------------------------------------------------------------------
RECURSIVE QuoteChars(_)
QuoteChars(s) ==
  IF s = <<>> THEN <<>>
  ELSE (IF Head(s) \in {"\"", "\\"} THEN <<"\\", Head(s)>> ELSE <<Head(s)>>)
       \o QuoteChars(Tail(s))

Quote(s) == <<"\"">> \o QuoteChars(s) \o <<"\"">>

RECURSIVE JSONStringify(_)
RECURSIVE StringifyElements(_, _)
RECURSIVE StringifyMembers(_, _)

\* the elements of an array: undefined is serialised as null
StringifyElements(xs, first) ==
  IF xs = <<>> THEN <<>>
  ELSE (IF first THEN <<>> ELSE <<",">>)
       \o (IF Tag(Head(xs)) = "undefined" THEN <<"n", "u", "l", "l">>
           ELSE JSONStringify(Head(xs)))
       \o StringifyElements(Tail(xs), FALSE)

\* the properties of an object: an undefined property is left out
StringifyMembers(ps, first) ==
  IF ps = <<>> THEN <<>>
  ELSE IF Tag(Head(ps)[2]) = "undefined" THEN StringifyMembers(Tail(ps), first)
  ELSE (IF first THEN <<>> ELSE <<",">>)
       \o Quote(Head(ps)[1]) \o <<":">> \o JSONStringify(Head(ps)[2])
       \o StringifyMembers(Tail(ps), FALSE)

JSONStringify(v) ==
  CASE Tag(v) = "null" -> <<"n", "u", "l", "l">>
    [] Tag(v) = "boolean" ->
         IF v[2] THEN <<"t", "r", "u", "e">> ELSE <<"f", "a", "l", "s", "e">>
    [] Tag(v) = "number" -> NumberToString(v[2])
    [] Tag(v) = "string" -> Quote(v[2])
    [] Tag(v) = "array" -> <<"[">> \o StringifyElements(v[2], TRUE) \o <<"]">>
    [] Tag(v) = "object" -> <<"{">> \o StringifyMembers(v[2], TRUE) \o <<"}">>

\* ------------------------------------------------------------------------
\* JSON.parse (integers only; the escapes \" \\ \/ ; blanks as whitespace)
\* ------------------------------------------------------------------------
ParseFail == [ok |-> FALSE, val |-> Undefined, pos |-> 0]
ParseOk(v, p) == [ok |-> TRUE, val |-> v, pos |-> p]

RECURSIVE SkipWs(_, _)
SkipWs(t, i) ==
  IF i <= Len(t) /\ t[i] = " " THEN SkipWs(t, i + 1) ELSE i

Literal(t, i, w, v) ==
  IF i + Len(w) - 1 <= Len(t) /\ SubSeq(t, i, i + Len(w) - 1) = w
  THEN ParseOk(v, i + Len(w))
  ELSE ParseFail

\* t[i - 1] is the opening quote
RECURSIVE ScanString(_, _, _)
ScanString(t, i, acc) ==
  IF i > Len(t) THEN ParseFail
  ELSE IF t[i] = "\"" THEN ParseOk(acc, i + 1)
  ELSE IF t[i] = "\\" THEN
    IF i + 1 <= Len(t) /\ t[i + 1] \in {"\"", "\\", "/"}
    THEN ScanString(t, i + 2, Append(acc, t[i + 1]))
    ELSE ParseFail
  ELSE ScanString(t, i + 1, Append(acc, t[i]))

RECURSIVE ScanDigits(_, _, _)
ScanDigits(t, i, n) ==
  IF i <= Len(t) /\ t[i] \in Digits
  THEN ScanDigits(t, i + 1, 10 * n + DigitValue(t[i]))
  ELSE ParseOk(n, i)

\* -?(0|[1-9][0-9]*) not followed by a fraction or an exponent
ParseNumber(t, i) ==
  LET neg == t[i] = "-"
      j == IF neg THEN i + 1 ELSE i
  IN IF j > Len(t) \/ t[j] \notin Digits THEN ParseFail
     ELSE LET r == IF t[j] = "0" THEN ParseOk(0, j + 1) ELSE ScanDigits(t, j, 0)
          IN IF r.pos <= Len(t) /\ t[r.pos] \in {".", "e", "E"} THEN ParseFail
             ELSE ParseOk(Num(IF neg THEN 0 - r.val ELSE r.val), r.pos)

RECURSIVE ParseValue(_, _)
RECURSIVE ParseElements(_, _, _)
RECURSIVE ParseMembers(_, _, _)

\* i is at the first character of an element; acc the elements so far
ParseElements(t, i, acc) ==
  LET r == ParseValue(t, i) IN
  IF ~r.ok THEN ParseFail
  ELSE LET j == SkipWs(t, r.pos) IN
       IF j > Len(t) THEN ParseFail
       ELSE IF t[j] = "," THEN ParseElements(t, j + 1, Append(acc, r.val))
       ELSE IF t[j] = "]" THEN ParseOk(Arr(Append(acc, r.val)), j + 1)
       ELSE ParseFail

\* i is where a member name is expected; acc the properties so far
ParseMembers(t, i, acc) ==
  LET j == SkipWs(t, i) IN
  IF j > Len(t) \/ t[j] # "\"" THEN ParseFail
  ELSE LET k == ScanString(t, j + 1, <<>>) IN
       IF ~k.ok THEN ParseFail
       ELSE LET c == SkipWs(t, k.pos) IN
            IF c > Len(t) \/ t[c] # ":" THEN ParseFail
            ELSE LET r == ParseValue(t, c + 1) IN
                 IF ~r.ok THEN ParseFail
                 ELSE LET e == SkipWs(t, r.pos)
                          ps == PropSet(acc, k.val, r.val)
                      IN IF e > Len(t) THEN ParseFail
                         ELSE IF t[e] = "," THEN ParseMembers(t, e + 1, ps)
                         ELSE IF t[e] = "}" THEN ParseOk(Obj(ps), e + 1)
                         ELSE ParseFail

ParseValue(t, i) ==
  LET j == SkipWs(t, i) IN
  IF j > Len(t) THEN ParseFail
  ELSE CASE t[j] = "n" -> Literal(t, j, <<"n", "u", "l", "l">>, Null)
         [] t[j] = "t" -> Literal(t, j, <<"t", "r", "u", "e">>, Bool(TRUE))
         [] t[j] = "f" -> Literal(t, j, <<"f", "a", "l", "s", "e">>, Bool(FALSE))
         [] t[j] = "\"" ->
              LET s == ScanString(t, j + 1, <<>>) IN
              IF s.ok THEN ParseOk(Str(s.val), s.pos) ELSE ParseFail
         [] t[j] = "[" ->
              LET e == SkipWs(t, j + 1) IN
              IF e <= Len(t) /\ t[e] = "]" THEN ParseOk(Arr(<<>>), e + 1)
              ELSE ParseElements(t, j + 1, <<>>)
         [] t[j] = "{" ->
              LET e == SkipWs(t, j + 1) IN
              IF e <= Len(t) /\ t[e] = "}" THEN ParseOk(Obj(<<>>), e + 1)
              ELSE ParseMembers(t, j + 1, <<>>)
         [] t[j] \in Digits \cup {"-"} -> ParseNumber(t, j)
         [] OTHER -> ParseFail

\* ok = FALSE stands for the SyntaxError JSON.parse throws
JSONParse(t) ==
  LET r == ParseValue(t, 1) IN
  IF r.ok /\ SkipWs(t, r.pos) = Len(t) + 1 THEN r ELSE ParseFail

\* ------------------------------------------------------------------------
\* The codec
\* ------------------------------------------------------------------------
ValueName == <<"v", "a", "l", "u", "e">>

\* current variant: the exported functions wrap / unwrap

\* wrap that serialises the bare value, without the {value} wrapper
wrapBare(value) ==
  IF Tag(value) = "undefined" \/ Tag(value) = "null" THEN value
  ELSE Str(JSONStringify(value))

\* wrap that passes every falsy value through (!value for the null test)
wrapTruthy(value) ==
  IF Falsy(value) THEN value
  ELSE Str(JSONStringify(Obj(<< <<ValueName, value>> >>)))

wrap(value) ==
  IF Tag(value) = "undefined" \/ Tag(value) = "null" THEN value
  ELSE Str(JSONStringify(Obj(<< <<ValueName, value>> >>)))

\* unwrap that returns the parsed wrapper instead of its value property
unwrapWhole(value) ==
  IF Falsy(value) \/ Tag(value) # "string" THEN value
  ELSE LET data == JSONParse(value[2]) IN
       IF ~data.ok THEN Undefined ELSE data.val

\* unwrap whose catch block returns the text it could not parse
unwrapKeepsText(value) ==
  IF Falsy(value) \/ Tag(value) # "string" THEN value
  ELSE LET data == JSONParse(value[2]) IN
       IF ~data.ok THEN value
       ELSE IF Tag(data.val) = "null" THEN value
       ELSE GetProp(data.val, ValueName)

unwrap(value) ==
  IF Falsy(value) \/ Tag(value) # "string" THEN value
  ELSE LET data == JSONParse(value[2]) IN
       IF ~data.ok THEN Undefined            \* SyntaxError, caught
       ELSE IF Tag(data.val) = "null" THEN Undefined  \* TypeError, caught
       ELSE GetProp(data.val, ValueName)

\* legacy variant: the methods _wrap / _unwrap of the element
wrapLegacy(value) ==
  IF Tag(value) = "undefined" \/ Tag(value) = "null" THEN value
  ELSE Str(JSONStringify(Obj(<< <<ValueName, value>> >>)))

\* _unwrap that tests only the type, so the empty string is parsed too
unwrapLegacyParsesEmpty(value) ==
  IF Tag(value) # "string" THEN value
  ELSE LET parsed == JSONParse(value[2]) IN
       IF ~parsed.ok THEN Undefined
       ELSE IF Tag(parsed.val) = "null" THEN Undefined
       ELSE GetProp(parsed.val, ValueName)

unwrapLegacy(value) ==
  IF Falsy(value) \/ Tag(value) # "string" THEN value
  ELSE LET parsed == JSONParse(value[2]) IN
       IF ~parsed.ok THEN Undefined
       ELSE IF Tag(parsed.val) = "null" THEN Undefined
       ELSE GetProp(parsed.val, ValueName)

\* ------------------------------------------------------------------------
\* localStorage: the sequence of its <<key, value>> entries in key(i) order;
\* keys and values are strings
\* ------------------------------------------------------------------------
RECURSIVE StorageIndex(_, _, _)
StorageIndex(ls, key, i) ==
  IF i > Len(ls) THEN 0
  ELSE IF ls[i][1] = key THEN i
  ELSE StorageIndex(ls, key, i + 1)

\* localStorage.key(i), i counted from 0
StorageKey(ls, i) == ls[i + 1][1]

\* localStorage.getItem(key): a string, or null for a missing key
GetItem(ls, key) ==
  LET i == StorageIndex(ls, key, 1) IN
  IF i = 0 THEN Null ELSE Str(ls[i][2])

\* String(v) / `${v}` for the values that reach it here
JSToString(v) ==
  CASE Tag(v) = "string" -> v[2]
    [] Tag(v) = "undefined" ->
         <<"u", "n", "d", "e", "f", "i", "n", "e", "d">>
    [] Tag(v) = "null" -> <<"n", "u", "l", "l">>
    [] Tag(v) = "number" -> NumberToString(v[2])
    [] Tag(v) = "boolean" ->
         IF v[2] THEN <<"t", "r", "u", "e">> ELSE <<"f", "a", "l", "s", "e">>

\* localStorage.setItem(key, value) that does not throw: the value is
\* converted to a string; an existing key keeps its position
SetItem(ls, key, value) ==
  LET i == StorageIndex(ls, key, 1) IN
  IF i = 0 THEN Append(ls, <<key, JSToString(value)>>)
  ELSE [ls EXCEPT ![i] = <<key, JSToString(value)>>]

\* localStorage.removeItem(key)
RemoveItem(ls, key) ==
  LET i == StorageIndex(ls, key, 1) IN
  IF i = 0 THEN ls
  ELSE SubSeq(ls, 1, i - 1) \o SubSeq(ls, i + 1, Len(ls))

\* ------------------------------------------------------------------------
\* Promises, errors, effects
\* ------------------------------------------------------------------------
Unset == <<"unset">>
Resolved(v) == <<"resolved", v>>
Rejected(e) == <<"rejected", e>>

QuotaExceededError == "QuotaExceededError"
NameNotSet == "Name is not set."
ValueNotSet == "Value is not set."

SetItemEffect(key, value) == <<"setItem", key, value>>
RemoveItemEffect(key) == <<"removeItem", key>>
DispatchEffect(e) == <<"dispatchEvent", e>>

Dot == <<".">>

\* ------------------------------------------------------------------------
\* Events
\* ------------------------------------------------------------------------
\* a request event as a listener sees it; detail.result is the result slot
RequestEvent(type, cancelable, defaultPrevented, name, value, settings) ==
  [type |-> type, cancelable |-> cancelable,
   defaultPrevented |-> defaultPrevented, propagationStopped |-> FALSE,
   detail |-> [name |-> name, value |-> value, settings |-> settings,
               result |-> Unset]]

NoEvent == RequestEvent("none", FALSE, FALSE, Undefined, Undefined, Undefined)

\* e.preventDefault(); e.stopPropagation();
Cancel(e) ==
  [e EXCEPT !.defaultPrevented = e.cancelable \/ e.defaultPrevented,
            !.propagationStopped = TRUE]

\* scope.indexOf(x) === -1 on an array
NotInArray(xs, x) == \A i \in 1..Len(xs) : xs[i] # x

\* ------------------------------------------------------------------------
\* Preferences Store, current variant (ArcLocalStorePreferences, LitElement)
\* ------------------------------------------------------------------------
\* _informChanged that passes on the encoded value
informChangedEncoded(name, value) ==
  [type |-> "settings-changed",
   detail |-> [name |-> name, value |-> wrap(value)],
   bubbles |-> TRUE, composed |-> TRUE, cancelable |-> FALSE]

\* the event _informChanged(name, value) dispatches
informChanged(name, value) ==
  [type |-> "settings-changed", detail |-> [name |-> name, value |-> value],
   bubbles |-> TRUE, composed |-> TRUE, cancelable |-> FALSE]

\* store(key, value); quota: localStorage.setItem throws
store(ls, dataPrefix, key, value, quota) ==
  LET prefix == IF Falsy(dataPrefix) THEN <<>> ELSE JSToString(dataPrefix)
      sKey == prefix \o Dot \o JSToString(key)
      item == wrap(value)
  IN IF quota
     THEN [ls |-> ls, result |-> Rejected(QuotaExceededError), effects |-> <<>>]
     ELSE [ls |-> SetItem(ls, sKey, item),
           result |-> Resolved(Undefined),
           effects |-> <<SetItemEffect(sKey, JSToString(item)),
                         DispatchEffect(informChanged(key, value))>>]

\* the loop of load(scope) without the scope test
RECURSIVE loadLoopUnscoped(_, _, _, _, _)
loadLoopUnscoped(ls, prefix, scope, i, result) ==
  IF i >= Len(ls) THEN result
  ELSE LET key == StorageKey(ls, i) IN
       IF StartsWith(key, prefix)
       THEN loadLoopUnscoped(ls, prefix, scope, i + 1,
              (Substr(key, Len(prefix)) :> unwrap(GetItem(ls, key))) @@ result)
       ELSE loadLoopUnscoped(ls, prefix, scope, i + 1, result)

\* the for loop of load(scope), from index i on
RECURSIVE loadLoop(_, _, _, _, _)
loadLoop(ls, prefix, scope, i, result) ==
  IF i >= Len(ls) THEN result
  ELSE LET key == StorageKey(ls, i) IN
       IF StartsWith(key, prefix)
       THEN LET settingKey == Substr(key, Len(prefix)) IN
            IF ~Falsy(scope) /\ NotInArray(scope[2], Str(settingKey))
            THEN loadLoop(ls, prefix, scope, i + 1, result)
            ELSE loadLoop(ls, prefix, scope, i + 1,
                          (settingKey :> unwrap(GetItem(ls, key))) @@ result)
       ELSE loadLoop(ls, prefix, scope, i + 1, result)

\* load(scope): the object the promise resolves to, a function from
\* setting names to values
load(ls, dataPrefix, scope) ==
  LET dp == IF Tag(dataPrefix) = "undefined" THEN <<>>
            ELSE JSToString(dataPrefix)
      prefix == dp \o Dot
  IN Resolved(loadLoop(ls, prefix, scope, 0, <<>>))

\* the loop of clear() stopping before index 0 (i > 0 for i >= 0)
RECURSIVE clearLoopAboveZero(_, _, _, _)
clearLoopAboveZero(ls, prefix, i, effects) ==
  IF i < 1 THEN [ls |-> ls, effects |-> effects]
  ELSE LET key == StorageKey(ls, i) IN
       IF StartsWith(key, prefix)
       THEN clearLoopAboveZero(RemoveItem(ls, key), prefix, i - 1,
                               Append(effects, RemoveItemEffect(key)))
       ELSE clearLoopAboveZero(ls, prefix, i - 1, effects)

\* the for loop of clear(), from index i down
RECURSIVE clearLoop(_, _, _, _)
clearLoop(ls, prefix, i, effects) ==
  IF i < 0 THEN [ls |-> ls, effects |-> effects]
  ELSE LET key == StorageKey(ls, i) IN
       IF StartsWith(key, prefix)
       THEN clearLoop(RemoveItem(ls, key), prefix, i - 1,
                      Append(effects, RemoveItemEffect(key)))
       ELSE clearLoop(ls, prefix, i - 1, effects)

clear(ls, dataPrefix) ==
  LET prefix == IF Falsy(dataPrefix) THEN <<>> ELSE JSToString(dataPrefix)
      r == clearLoop(ls, prefix, Len(ls) - 1, <<>>)
  IN [ls |-> r.ls, result |-> Resolved(Undefined), effects |-> r.effects]

\* _readHandler(e): the event as the handler leaves it
readHandler(ls, dataPrefix, e) ==
  IF e.defaultPrevented THEN e
  ELSE [Cancel(e) EXCEPT !.detail.result = load(ls, dataPrefix, e.detail.settings)]

\* the value of storageArea on a native storage event: a Storage object
StorageObject(name) == <<"Storage", name>>
LocalArea == <<"l", "o", "c", "a", "l">>
SessionArea == <<"s", "e", "s", "s", "i", "o", "n">>

\* a storage event as the handler sees it
StorageEvent(storageArea, key, newValue) ==
  [type |-> "storage", storageArea |-> storageArea, key |-> key,
   newValue |-> newValue]

\* _winSettingsHandler(e): the effects it has
winSettingsHandler(e) ==
  IF e.storageArea # Str(LocalArea) THEN <<>>
  ELSE <<DispatchEffect(informChanged(e.key, e.newValue))>>

\* _changeHandler(e) without the test of detail.name
changeHandlerUnnamed(ls, dataPrefix, e, quota) ==
  IF ~e.cancelable \/ e.defaultPrevented
  THEN [ls |-> ls, e |-> e, effects |-> <<>>, called |-> "none"]
  ELSE LET r == store(ls, dataPrefix, e.detail.name, e.detail.value, quota) IN
       [ls |-> r.ls, e |-> [Cancel(e) EXCEPT !.detail.result = r.result],
        effects |-> r.effects, called |-> "store"]

\* _changeHandler(e)
changeHandler(ls, dataPrefix, e, quota) ==
  IF ~e.cancelable \/ e.defaultPrevented
  THEN [ls |-> ls, e |-> e, effects |-> <<>>, called |-> "none"]
  ELSE IF Falsy(e.detail.name)
  THEN [ls |-> ls,
        e |-> [Cancel(e) EXCEPT !.detail.result = Rejected(NameNotSet)],
        effects |-> <<>>, called |-> "none"]
  ELSE LET r == store(ls, dataPrefix, e.detail.name, e.detail.value, quota) IN
       [ls |-> r.ls, e |-> [Cancel(e) EXCEPT !.detail.result = r.result],
        effects |-> r.effects, called |-> "store"]

\* ------------------------------------------------------------------------
\* Preferences Store, legacy variant (ArcLocalStorePreferences, Polymer)
\* ------------------------------------------------------------------------
informChangedLegacy(name, value) ==
  [type |-> "settings-changed", detail |-> [name |-> name, value |-> value],
   bubbles |-> TRUE, composed |-> TRUE, cancelable |-> FALSE]

\* store whose catch block swallows the error and carries on
storeLegacySwallows(ls, dataPrefix, key, value, quota) ==
  LET prefix == IF Falsy(dataPrefix) THEN <<>> ELSE JSToString(dataPrefix)
      sKey == prefix \o Dot \o JSToString(key)
      item == wrapLegacy(value)
  IN [ls |-> IF quota THEN ls ELSE SetItem(ls, sKey, item),
      result |-> Resolved(Undefined),
      effects |-> (IF quota THEN <<>>
                   ELSE <<SetItemEffect(sKey, JSToString(item))>>)
                  \o <<DispatchEffect(informChangedLegacy(key, value))>>]

storeLegacy(ls, dataPrefix, key, value, quota) ==
  LET prefix == IF Falsy(dataPrefix) THEN <<>> ELSE JSToString(dataPrefix)
      sKey == prefix \o Dot \o JSToString(key)
      item == wrapLegacy(value)
  IN IF quota
     THEN [ls |-> ls, result |-> Rejected(QuotaExceededError), effects |-> <<>>]
     ELSE [ls |-> SetItem(ls, sKey, item),
           result |-> Resolved(Undefined),
           effects |-> <<SetItemEffect(sKey, JSToString(item)),
                         DispatchEffect(informChangedLegacy(key, value))>>]

RECURSIVE loadLoopLegacy(_, _, _, _, _)
loadLoopLegacy(ls, prefix, scope, i, result) ==
  IF i >= Len(ls) THEN result
  ELSE LET key == StorageKey(ls, i) IN
       IF StartsWith(key, prefix)
       THEN LET settingKey == Substr(key, Len(prefix)) IN
            IF ~Falsy(scope) /\ NotInArray(scope[2], Str(settingKey))
            THEN loadLoopLegacy(ls, prefix, scope, i + 1, result)
            ELSE loadLoopLegacy(ls, prefix, scope, i + 1,
                   (settingKey :> unwrapLegacy(GetItem(ls, key))) @@ result)
       ELSE loadLoopLegacy(ls, prefix, scope, i + 1, result)

loadLegacy(ls, dataPrefix, scope) ==
  LET prefix == (IF Falsy(dataPrefix) THEN <<>> ELSE JSToString(dataPrefix))
                \o Dot
  IN Resolved(loadLoopLegacy(ls, prefix, scope, 0, <<>>))

\* the loop of clear() stepping over the key that follows a removed one
RECURSIVE clearLoopLegacySkips(_, _, _, _)
clearLoopLegacySkips(ls, prefix, i, effects) ==
  IF i < 0 THEN [ls |-> ls, effects |-> effects]
  ELSE LET key == StorageKey(ls, i) IN
       IF StartsWith(key, prefix)
       THEN clearLoopLegacySkips(RemoveItem(ls, key), prefix, i - 2,
                                 Append(effects, RemoveItemEffect(key)))
       ELSE clearLoopLegacySkips(ls, prefix, i - 1, effects)

RECURSIVE clearLoopLegacy(_, _, _, _)
clearLoopLegacy(ls, prefix, i, effects) ==
  IF i < 0 THEN [ls |-> ls, effects |-> effects]
  ELSE LET key == StorageKey(ls, i) IN
       IF StartsWith(key, prefix)
       THEN clearLoopLegacy(RemoveItem(ls, key), prefix, i - 1,
                            Append(effects, RemoveItemEffect(key)))
       ELSE clearLoopLegacy(ls, prefix, i - 1, effects)

\* the legacy clear() is not async: it returns undefined, which a caller
\* that awaits it sees as a resolved completion
clearLegacy(ls, dataPrefix) ==
  LET prefix == IF Falsy(dataPrefix) THEN <<>> ELSE JSToString(dataPrefix)
      r == clearLoopLegacy(ls, prefix, Len(ls) - 1, <<>>)
  IN [ls |-> r.ls, result |-> Resolved(Undefined), effects |-> r.effects]

readHandlerLegacy(ls, dataPrefix, e) ==
  IF e.defaultPrevented THEN e
  ELSE [Cancel(e) EXCEPT
          !.detail.result = loadLegacy(ls, dataPrefix, e.detail.settings)]

winSettingsHandlerLegacy(e) ==
  IF e.storageArea # Str(LocalArea) THEN <<>>
  ELSE <<DispatchEffect(informChangedLegacy(e.key, e.newValue))>>

\* _changeHandler without the cancelable test: a notification is taken for
\* a write request
changeHandlerLegacyAnyEvent(ls, dataPrefix, e, quota) ==
  IF e.cancelable /\ e.defaultPrevented
  THEN [ls |-> ls, e |-> e, effects |-> <<>>, called |-> "none"]
  ELSE IF Falsy(e.detail.name)
  THEN [ls |-> ls,
        e |-> [Cancel(e) EXCEPT !.detail.result = Rejected(NameNotSet)],
        effects |-> <<>>, called |-> "none"]
  ELSE LET r == storeLegacy(ls, dataPrefix, e.detail.name, e.detail.value,
                            quota) IN
       [ls |-> r.ls,
        e |-> IF e.cancelable
              THEN [Cancel(e) EXCEPT !.detail.result = r.result] ELSE e,
        effects |-> r.effects, called |-> "store"]

changeHandlerLegacy(ls, dataPrefix, e, quota) ==
  IF ~e.cancelable \/ e.defaultPrevented
  THEN [ls |-> ls, e |-> e, effects |-> <<>>, called |-> "none"]
  ELSE IF Falsy(e.detail.name)
  THEN [ls |-> ls,
        e |-> [Cancel(e) EXCEPT !.detail.result = Rejected(NameNotSet)],
        effects |-> <<>>, called |-> "none"]
  ELSE LET r == storeLegacy(ls, dataPrefix, e.detail.name, e.detail.value,
                            quota) IN
       [ls |-> r.ls, e |-> [Cancel(e) EXCEPT !.detail.result = r.result],
        effects |-> r.effects, called |-> "store"]

\* ------------------------------------------------------------------------
\* Workspace Store.  An element is the record of its fields
\*   dataPrefix, pendingWorkspace (__pendingWorkspace),
\*   workspaceWriteDebounce (__workspaceWriteDebounce: a timer id, 0 for
\*   undefined);
\* a timer is [id, at]: the callback of setTimeout is due at time `at`.
\* ------------------------------------------------------------------------
WriteDelay == 500

\* current variant (ArcLocalStoreWorkspace, LitElement) -------------------

\* store(value) that arms a new timer without clearing the armed one
workspaceStoreNoClear(el, tm, value, t, id) ==
  [el |-> [el EXCEPT !.pendingWorkspace = value,
                     !.workspaceWriteDebounce = id],
   timers |-> tm \cup {[id |-> id, at |-> t + WriteDelay]}]

\* store(value) at time t; id is the handle setTimeout returns
workspaceStore(el, tm, value, t, id) ==
  [el |-> [el EXCEPT !.pendingWorkspace = value,
                     !.workspaceWriteDebounce = id],
   timers |-> (IF el.workspaceWriteDebounce # 0
               THEN {x \in tm : x.id # el.workspaceWriteDebounce}
               ELSE tm)
              \cup {[id |-> id, at |-> t + WriteDelay]}]

\* _store with one try / catch around the whole forEach: the first write
\* that throws ends the flush
RECURSIVE flushLoopStopsAtFailure(_, _, _, _, _, _)
flushLoopStopsAtFailure(ls, dataPrefix, ps, i, failing, effects) ==
  IF i > Len(ps) THEN [ls |-> ls, effects |-> effects]
  ELSE LET key == ps[i][1]
           prefix == IF Falsy(dataPrefix) THEN <<>> ELSE JSToString(dataPrefix)
           sKey == prefix \o Dot \o key
           item == wrap(ps[i][2])
       IN IF key \in failing
          THEN [ls |-> ls, effects |-> effects]
          ELSE flushLoopStopsAtFailure(SetItem(ls, sKey, item), dataPrefix, ps,
                 i + 1, failing,
                 Append(effects, SetItemEffect(sKey, JSToString(item))))

\* the forEach of _store over the properties ps from index i on;
\* failing: the keys for which localStorage.setItem throws
RECURSIVE flushLoop(_, _, _, _, _, _)
flushLoop(ls, dataPrefix, ps, i, failing, effects) ==
  IF i > Len(ps) THEN [ls |-> ls, effects |-> effects]
  ELSE LET key == ps[i][1]
           prefix == IF Falsy(dataPrefix) THEN <<>> ELSE JSToString(dataPrefix)
           sKey == prefix \o Dot \o key
           item == wrap(ps[i][2])
       IN IF key \in failing
          THEN flushLoop(ls, dataPrefix, ps, i + 1, failing, effects)
          ELSE flushLoop(SetItem(ls, sKey, item), dataPrefix, ps, i + 1,
                         failing,
                         Append(effects, SetItemEffect(sKey, JSToString(item))))

\* _store(workspace)
workspaceFlush(ls, dataPrefix, workspace, failing) ==
  IF Falsy(workspace) THEN [ls |-> ls, effects |-> <<>>]
  ELSE flushLoop(ls, dataPrefix, workspace[2], 1, failing, <<>>)

\* the timer callback without its last statement: the pending value stays
workspaceTimeoutKeepsPending(ls, el, failing) ==
  LET r == workspaceFlush(ls, el.dataPrefix, el.pendingWorkspace, failing) IN
  [ls |-> r.ls, effects |-> r.effects,
   el |-> [el EXCEPT !.workspaceWriteDebounce = 0]]

\* the callback given to setTimeout in store(value)
workspaceTimeout(ls, el, failing) ==
  LET r == workspaceFlush(ls, el.dataPrefix, el.pendingWorkspace, failing) IN
  [ls |-> r.ls, effects |-> r.effects,
   el |-> [el EXCEPT !.workspaceWriteDebounce = 0,
                     !.pendingWorkspace = Undefined]]

\* the for loop of load(), from index i on
RECURSIVE workspaceLoadLoop(_, _, _, _)
workspaceLoadLoop(ls, prefix, i, result) ==
  IF i >= Len(ls) THEN result
  ELSE LET key == StorageKey(ls, i) IN
       IF StartsWith(key, prefix)
       THEN workspaceLoadLoop(ls, prefix, i + 1,
              (Substr(key, Len(prefix)) :> unwrap(GetItem(ls, key))) @@ result)
       ELSE workspaceLoadLoop(ls, prefix, i + 1, result)

\* load(): the default '' replaces an undefined dataPrefix only
workspaceLoad(ls, el) ==
  LET dp == IF Tag(el.dataPrefix) = "undefined" THEN <<>>
            ELSE JSToString(el.dataPrefix)
  IN Resolved(workspaceLoadLoop(ls, dp \o Dot, 0, <<>>))

\* the for loop of clear(), from index i down
RECURSIVE workspaceClearLoop(_, _, _, _)
workspaceClearLoop(ls, prefix, i, effects) ==
  IF i < 0 THEN [ls |-> ls, effects |-> effects]
  ELSE LET key == StorageKey(ls, i) IN
       IF StartsWith(key, prefix)
       THEN workspaceClearLoop(RemoveItem(ls, key), prefix, i - 1,
                               Append(effects, RemoveItemEffect(key)))
       ELSE workspaceClearLoop(ls, prefix, i - 1, effects)

\* clear(): dataPrefix is used as it is; key.indexOf converts it to a string
workspaceClear(ls, el) ==
  workspaceClearLoop(ls, JSToString(el.dataPrefix), Len(ls) - 1, <<>>)

\* _readHandler(e) for workspace-state-read
workspaceReadHandler(ls, el, e) ==
  IF e.defaultPrevented THEN e
  ELSE [Cancel(e) EXCEPT !.detail.result = workspaceLoad(ls, el)]

\* _changeHandler(e) without the test of detail.value
workspaceChangeHandlerUnchecked(el, tm, e, t, id) ==
  IF ~e.cancelable \/ e.defaultPrevented
  THEN [el |-> el, timers |-> tm, e |-> e, called |-> "none"]
  ELSE LET r == workspaceStore(el, tm, e.detail.value, t, id) IN
       [el |-> r.el, timers |-> r.timers, e |-> Cancel(e), called |-> "store"]

\* _changeHandler(e) for workspace-state-store
workspaceChangeHandler(el, tm, e, t, id) ==
  IF ~e.cancelable \/ e.defaultPrevented
  THEN [el |-> el, timers |-> tm, e |-> e, called |-> "none"]
  ELSE IF Falsy(e.detail.value)
  THEN [el |-> el, timers |-> tm,
        e |-> [Cancel(e) EXCEPT !.detail.result = Rejected(ValueNotSet)],
        called |-> "none"]
  ELSE LET r == workspaceStore(el, tm, e.detail.value, t, id) IN
       [el |-> r.el, timers |-> r.timers, e |-> Cancel(e), called |-> "store"]

\* legacy variant (ArcLocalStoreWorkspace, Polymer) -----------------------
WriteDelayLegacy == 500

\* store(value) that arms a new timer and leaves the armed one running
workspaceStoreLegacyNoClear(el, tm, value, t, id) ==
  [el |-> [el EXCEPT !.pendingWorkspace = value,
                     !.workspaceWriteDebounce = id],
   timers |-> tm \cup {[id |-> id, at |-> t + WriteDelayLegacy]}]

workspaceStoreLegacy(el, tm, value, t, id) ==
  [el |-> [el EXCEPT !.pendingWorkspace = value,
                     !.workspaceWriteDebounce = id],
   timers |-> (IF el.workspaceWriteDebounce # 0
               THEN {x \in tm : x.id # el.workspaceWriteDebounce}
               ELSE tm)
              \cup {[id |-> id, at |-> t + WriteDelayLegacy]}]

RECURSIVE flushLoopLegacy(_, _, _, _, _, _)
flushLoopLegacy(ls, dataPrefix, ps, i, failing, effects) ==
  IF i > Len(ps) THEN [ls |-> ls, effects |-> effects]
  ELSE LET key == ps[i][1]
           prefix == IF Falsy(dataPrefix) THEN <<>> ELSE JSToString(dataPrefix)
           sKey == prefix \o Dot \o key
           item == wrapLegacy(ps[i][2])
       IN IF key \in failing
          THEN flushLoopLegacy(ls, dataPrefix, ps, i + 1, failing, effects)
          ELSE flushLoopLegacy(SetItem(ls, sKey, item), dataPrefix, ps, i + 1,
                 failing,
                 Append(effects, SetItemEffect(sKey, JSToString(item))))

workspaceFlushLegacy(ls, dataPrefix, workspace, failing) ==
  IF Falsy(workspace) THEN [ls |-> ls, effects |-> <<>>]
  ELSE flushLoopLegacy(ls, dataPrefix, workspace[2], 1, failing, <<>>)

workspaceTimeoutLegacy(ls, el, failing) ==
  LET r == workspaceFlushLegacy(ls, el.dataPrefix, el.pendingWorkspace,
                                failing) IN
  [ls |-> r.ls, effects |-> r.effects,
   el |-> [el EXCEPT !.workspaceWriteDebounce = 0,
                     !.pendingWorkspace = Undefined]]

RECURSIVE workspaceLoadLoopLegacy(_, _, _, _)
workspaceLoadLoopLegacy(ls, prefix, i, result) ==
  IF i >= Len(ls) THEN result
  ELSE LET key == StorageKey(ls, i) IN
       IF StartsWith(key, prefix)
       THEN workspaceLoadLoopLegacy(ls, prefix, i + 1,
              (Substr(key, Len(prefix)) :> unwrapLegacy(GetItem(ls, key)))
                @@ result)
       ELSE workspaceLoadLoopLegacy(ls, prefix, i + 1, result)

workspaceLoadLegacy(ls, el) ==
  LET dp == IF Falsy(el.dataPrefix) THEN <<>> ELSE JSToString(el.dataPrefix)
  IN Resolved(workspaceLoadLoopLegacy(ls, dp \o Dot, 0, <<>>))

RECURSIVE workspaceClearLoopLegacy(_, _, _, _)
workspaceClearLoopLegacy(ls, prefix, i, effects) ==
  IF i < 0 THEN [ls |-> ls, effects |-> effects]
  ELSE LET key == StorageKey(ls, i) IN
       IF StartsWith(key, prefix)
       THEN workspaceClearLoopLegacy(RemoveItem(ls, key), prefix, i - 1,
                                     Append(effects, RemoveItemEffect(key)))
       ELSE workspaceClearLoopLegacy(ls, prefix, i - 1, effects)

workspaceClearLegacy(ls, el) ==
  workspaceClearLoopLegacy(ls, JSToString(el.dataPrefix), Len(ls) - 1, <<>>)

workspaceReadHandlerLegacy(ls, el, e) ==
  IF e.defaultPrevented THEN e
  ELSE [Cancel(e) EXCEPT !.detail.result = workspaceLoadLegacy(ls, el)]

\* _changeHandler(e) that puts the outcome of store(value) on the request
workspaceChangeHandlerLegacyAnswers(el, tm, e, t, id) ==
  IF ~e.cancelable \/ e.defaultPrevented
  THEN [el |-> el, timers |-> tm, e |-> e, called |-> "none"]
  ELSE IF Falsy(e.detail.value)
  THEN [el |-> el, timers |-> tm,
        e |-> [Cancel(e) EXCEPT !.detail.result = Rejected(ValueNotSet)],
        called |-> "none"]
  ELSE LET r == workspaceStoreLegacy(el, tm, e.detail.value, t, id) IN
       [el |-> r.el, timers |-> r.timers,
        e |-> [Cancel(e) EXCEPT !.detail.result = Resolved(Undefined)],
        called |-> "store"]

workspaceChangeHandlerLegacy(el, tm, e, t, id) ==
  IF ~e.cancelable \/ e.defaultPrevented
  THEN [el |-> el, timers |-> tm, e |-> e, called |-> "none"]
  ELSE IF Falsy(e.detail.value)
  THEN [el |-> el, timers |-> tm,
        e |-> [Cancel(e) EXCEPT !.detail.result = Rejected(ValueNotSet)],
        called |-> "none"]
  ELSE LET r == workspaceStoreLegacy(el, tm, e.detail.value, t, id) IN
       [el |-> r.el, timers |-> r.timers, e |-> Cancel(e), called |-> "store"]

\* ------------------------------------------------------------------------
\* Several elements attached to one window.  connectedCallback registers
\* each element's handlers on window; a dispatched event runs the listeners
\* in the order of registration, and stopPropagation() does not keep the
\* other listeners of window from running.
\* ------------------------------------------------------------------------
\* settings-read reaching the Preferences Stores dps[i..]; served counts
\* the load() calls made for it
RECURSIVE dispatchSettingsRead(_, _, _, _, _, _)
dispatchSettingsRead(v, ls, dps, i, e, served) ==
  IF i > Len(dps) THEN [e |-> e, served |-> served]
  ELSE LET h == IF v = "lit" THEN readHandler(ls, dps[i], e)
                ELSE readHandlerLegacy(ls, dps[i], e)
       IN dispatchSettingsRead(v, ls, dps, i + 1, h,
            IF e.defaultPrevented THEN served ELSE served + 1)

\* settings-changed reaching the Preferences Stores dps[i..]; served counts
\* the store() calls made for it
RECURSIVE dispatchSettingsChanged(_, _, _, _, _, _, _)
dispatchSettingsChanged(v, ls, dps, i, e, effects, served) ==
  IF i > Len(dps)
  THEN [ls |-> ls, e |-> e, effects |-> effects, served |-> served]
  ELSE LET r == IF v = "lit" THEN changeHandler(ls, dps[i], e, FALSE)
                ELSE changeHandlerLegacy(ls, dps[i], e, FALSE)
       IN dispatchSettingsChanged(v, r.ls, dps, i + 1, r.e,
            effects \o r.effects,
            IF r.called = "store" THEN served + 1 ELSE served)

\* workspace-state-read reaching the Workspace Stores els[i..]
RECURSIVE dispatchWorkspaceRead(_, _, _, _, _, _)
dispatchWorkspaceRead(v, ls, els, i, e, served) ==
  IF i > Len(els) THEN [e |-> e, served |-> served]
  ELSE LET h == IF v = "lit" THEN workspaceReadHandler(ls, els[i], e)
                ELSE workspaceReadHandlerLegacy(ls, els[i], e)
       IN dispatchWorkspaceRead(v, ls, els, i + 1, h,
            IF e.defaultPrevented THEN served ELSE served + 1)

\* ------------------------------------------------------------------------
\* State
\* ------------------------------------------------------------------------
VARIABLES
  variant,       \* "lit" or "polymer": which variant of the elements runs
  localStorage,  \* the underlying store
  dataPrefix,    \* the Preferences Store's dataPrefix property
  lastOp,        \* the last Preferences Store operation and what it did
  written,       \* setting name -> value of its last successful store
                 \* since the last clear()
  tracked,       \* TRUE when `written` accounts for every entry under the
                 \* prefix: the storage was empty or cleared, and no null or
                 \* undefined was stored since
  workspace,     \* the Workspace Store element
  timers,        \* the armed timers
  nextTimerId,   \* the handle the next setTimeout returns
  now,           \* the clock, in ms
  wsLast,        \* the last Workspace Store operation and what it did
  burst,         \* the values of the store calls since the last flush
  lastStoreAt,   \* the time of the latest store call, -1 before the first
  flushes,       \* the number of times the timer callback ran
  answered,      \* the number of store calls those flushes answered
  prefs,         \* the dataPrefix of each Preferences Store on the window
  spaces,        \* the Workspace Store elements on the window
  owner,         \* storage key -> configured prefix of the element that
                 \* wrote the entry
  shLast,        \* the last operation on the shared storage
  codecPc,       \* the codec exercise: "idle", "in", "wrapped", "unwrapped"
  codecIn,       \* its input value
  codecOut,      \* wrap(codecIn)
  codecBack      \* unwrap(codecOut)

prefVars == <<localStorage, dataPrefix, lastOp, written, tracked>>
wsVars == <<workspace, timers, nextTimerId, now, wsLast, burst, lastStoreAt,
           flushes, answered>>
codecVars == <<codecPc, codecIn, codecOut, codecBack>>
sharedVars == <<prefs, spaces, owner, shLast>>
vars == <<variant, localStorage, dataPrefix, lastOp, written, tracked,
          workspace, timers, nextTimerId, now, wsLast, burst, lastStoreAt,
          flushes, answered, prefs, spaces, owner, shLast,
          codecPc, codecIn, codecOut, codecBack>>

Variants == {"lit", "polymer"}

\* ------------------------------------------------------------------------
\* Inputs
\* ------------------------------------------------------------------------
ArcPrefix == <<"_", "a", "r", "c", "_">>
ArcWorkspacePrefix ==
  <<"_", "a", "r", "c", "w", "o", "r", "k", "s", "p", "a", "c", "e">>
OtherPrefix == <<"_", "o", "t", "h", "e", "r", "_">>
KeyA == <<"a">>
KeyB == <<"b">>
KeyC == <<"c">>
KeyD == <<"d">>
TestName == <<"t", "e", "s", "t">>

\* the raw texts the test suite seeds
RawStringA ==
  <<"{", "\"", "v", "a", "l", "u", "e", "\"", ":", "\"", "a", "\"", "}">>
RawTrue ==
  <<"{", "\"", "v", "a", "l", "u", "e", "\"", ":", "t", "r", "u", "e", "}">>
RawTwelve ==
  <<"{", "\"", "v", "a", "l", "u", "e", "\"", ":", "1", "2", "}">>
RawNull ==
  <<"{", "\"", "v", "a", "l", "u", "e", "\"", ":", "n", "u", "l", "l", "}">>
RawBroken == <<"{", "\"", "v", "a", "l", "u", "e", "\"">>

TestObject == Obj(<< <<TestName, Bool(TRUE)>> >>)

\* the <<key, value, setItem throws>> of the store(key, value) calls
StoreInputs ==
  ({Str(KeyA)} \X {Undefined, Null, Bool(FALSE), Num(12), Str(KeyA),
                   TestObject} \X {FALSE})
  \cup ({Str(KeyB)} \X {Bool(TRUE), Num(12)} \X {FALSE})
  \cup {<<Str(KeyA), Num(12), TRUE>>, <<Str(KeyB), Bool(TRUE), TRUE>>}

\* the settings-changed requests:
\* <<detail.name, detail.value, cancelable, defaultPrevented, setItem throws>>
ChangeInputs ==
  ({<<Str(KeyA), Str(KeyA)>>} \X
     {<<TRUE, FALSE, FALSE>>, <<TRUE, FALSE, TRUE>>, <<TRUE, TRUE, FALSE>>,
      <<FALSE, FALSE, FALSE>>})
  \cup ({<<Str(KeyB), TestObject>>, <<Undefined, Num(12)>>,
         <<Str(<<>>), Num(12)>>} \X {<<TRUE, FALSE, FALSE>>})

\* load(scope)
Scopes ==
  {Undefined, Arr(<<>>), Arr(<<Str(KeyA), Str(KeyC)>>),
   Arr(<<Str(KeyB), Str(KeyD)>>)}

\* detail.settings of a settings-read request
ReadInputs == {Undefined, Arr(<<Str(KeyC), Str(KeyD)>>)}

\* (cancelable, defaultPrevented) of an incoming request event
EventFlags == {<<TRUE, FALSE>>, <<TRUE, TRUE>>, <<FALSE, FALSE>>}

\* the dataPrefix configurations of the Preferences Store
DataPrefixes == {Str(ArcPrefix), Str(<<>>), Null}

\* the storage contents an element may find when it is created
SeedEmpty == <<>>
Seed ==
  << <<ArcPrefix \o Dot \o KeyA, RawStringA>>,
     <<OtherPrefix \o Dot \o KeyB, RawTrue>>,
     <<ArcPrefix \o Dot \o KeyC, RawTwelve>>,
     <<Dot \o KeyC, RawTrue>>,
     <<ArcPrefix \o Dot \o KeyD, RawNull>> >>
Seeds == {Seed}

\* ------------------------------------------------------------------------
\* Initial states
\* ------------------------------------------------------------------------
NoOp ==
  [op |-> "none", via |-> "none", key |-> Undefined, value |-> Undefined,
   scope |-> Undefined, result |-> Unset, effects |-> <<>>, event |-> NoEvent,
   area |-> Undefined, threw |-> FALSE]

PrefsIdle ==
  /\ localStorage = SeedEmpty
  /\ dataPrefix = Str(ArcPrefix)
  /\ lastOp = NoOp
  /\ written = <<>>
  /\ tracked = TRUE

\* constructor of the Workspace Store: the current element sets dataPrefix,
\* the legacy element declares the property `prefix` and leaves dataPrefix
\* undefined
NewWorkspace(v, configured) ==
  [prefix |-> IF v = "lit" THEN Undefined ELSE configured,
   dataPrefix |-> IF v = "lit" THEN configured ELSE Undefined,
   pendingWorkspace |-> Undefined,
   workspaceWriteDebounce |-> 0]

WsBefore ==
  [pendingWorkspace |-> workspace.pendingWorkspace,
   workspaceWriteDebounce |-> workspace.workspaceWriteDebounce,
   timers |-> timers]

\* op: "store", "flush" or "none"; value: the argument of store / _store;
\* covered: the store calls the flush answers; failing: the fields whose
\* write threw; before: the debounce state before the operation
NoWsOp ==
  [op |-> "none", via |-> "none", value |-> Undefined, result |-> Unset,
   effects |-> <<>>, event |-> NoEvent, at |-> 0, covered |-> <<>>,
   failing |-> {},
   before |-> [pendingWorkspace |-> Undefined, workspaceWriteDebounce |-> 0,
               timers |-> {}]]

\* nothing is pending and no store call was made
WorkspaceQuiet ==
  /\ timers = {}
  /\ nextTimerId = 1
  /\ now = 0
  /\ wsLast = NoWsOp
  /\ burst = <<>>
  /\ lastStoreAt = -1
  /\ flushes = 0
  /\ answered = 0

WorkspaceIdle ==
  /\ workspace = NewWorkspace(variant, Str(ArcWorkspacePrefix))
  /\ WorkspaceQuiet

CodecIdle ==
  /\ codecPc = "idle"
  /\ codecIn = Undefined
  /\ codecOut = Undefined
  /\ codecBack = Undefined

\* op: "store", "load", "clear", "flush", "settings-read",
\* "settings-changed" or "workspace-state-read"; kind and by: the element
\* that acted; who: its configured prefix; affected: the <<key, owner>> of
\* the entries the operation returned, overwrote or removed; incoming: the
\* <<cancelable, defaultPrevented>> of the event as dispatched; served: the
\* elements that served it; relayed: the store() calls made for the
\* notifications
NoShOp ==
  [op |-> "none", kind |-> "none", by |-> 0, who |-> <<>>, affected |-> {},
   incoming |-> <<FALSE, FALSE>>, event |-> NoEvent, served |-> 0,
   writes |-> 0, notifications |-> 0, relayed |-> 0]

\* no further element is attached
SharedIdle ==
  /\ prefs = <<>>
  /\ spaces = <<>>
  /\ owner = <<>>
  /\ shLast = NoShOp

Init ==
  /\ variant \in Variants
  /\ localStorage \in Seeds
  /\ dataPrefix \in DataPrefixes
  /\ lastOp = NoOp
  /\ written = <<>>
  /\ tracked = (localStorage = <<>>)
  /\ WorkspaceIdle
  /\ CodecIdle
  /\ SharedIdle

\* ------------------------------------------------------------------------
\* Preferences Store operations
\* ------------------------------------------------------------------------
\* bookkeeping after store(key, value) completed with `result`
NoteStore(key, value, result) ==
  IF result # Resolved(Undefined) \/ ~tracked
  THEN UNCHANGED <<written, tracked>>
  ELSE IF Tag(value) \in {"undefined", "null"}
  THEN /\ tracked' = FALSE
       /\ written' = <<>>
  ELSE /\ written' = (JSToString(key) :> value) @@ written
       /\ UNCHANGED tracked

\* element.store(key, value)
Store(key, value, quota) ==
  LET r == IF variant = "lit"
           THEN store(localStorage, dataPrefix, key, value, quota)
           ELSE storeLegacy(localStorage, dataPrefix, key, value, quota)
  IN /\ localStorage' = r.ls
     /\ lastOp' = [op |-> "store", via |-> "call", key |-> key,
                   value |-> value, scope |-> Undefined, result |-> r.result,
                   effects |-> r.effects, event |-> NoEvent,
                   area |-> Undefined, threw |-> quota]
     /\ NoteStore(key, value, r.result)
     /\ UNCHANGED <<variant, dataPrefix>>
     /\ UNCHANGED wsVars
     /\ UNCHANGED codecVars
     /\ UNCHANGED sharedVars

\* a settings-changed event reaches the element's window listener
SettingsChanged(name, value, flags, quota) ==
  LET e == RequestEvent("settings-changed", flags[1], flags[2], name, value,
                        Undefined)
      r == IF variant = "lit"
           THEN changeHandler(localStorage, dataPrefix, e, quota)
           ELSE changeHandlerLegacy(localStorage, dataPrefix, e, quota)
  IN /\ localStorage' = r.ls
     /\ lastOp' = [op |-> r.called, via |-> "event", key |-> name,
                   value |-> value, scope |-> Undefined,
                   result |-> r.e.detail.result, effects |-> r.effects,
                   event |-> r.e,
                   area |-> Undefined, threw |-> (quota /\ r.called = "store")]
     /\ IF r.called = "store"
        THEN NoteStore(name, value, r.e.detail.result)
        ELSE UNCHANGED <<written, tracked>>
     /\ UNCHANGED <<variant, dataPrefix>>
     /\ UNCHANGED wsVars
     /\ UNCHANGED codecVars
     /\ UNCHANGED sharedVars

\* element.load(scope)
Load(scope) ==
  /\ lastOp' = [op |-> "load", via |-> "call", key |-> Undefined,
                value |-> Undefined, scope |-> scope,
                result |-> IF variant = "lit"
                           THEN load(localStorage, dataPrefix, scope)
                           ELSE loadLegacy(localStorage, dataPrefix, scope),
                effects |-> <<>>, event |-> NoEvent,
                area |-> Undefined, threw |-> FALSE]
  /\ UNCHANGED <<variant, localStorage, dataPrefix, written, tracked>>
  /\ UNCHANGED wsVars
  /\ UNCHANGED codecVars
  /\ UNCHANGED sharedVars

\* a settings-read event reaches the element's window listener
SettingsRead(settings, flags) ==
  LET e == RequestEvent("settings-read", flags[1], flags[2], Undefined,
                        Undefined, settings)
      h == IF variant = "lit"
           THEN readHandler(localStorage, dataPrefix, e)
           ELSE readHandlerLegacy(localStorage, dataPrefix, e)
  IN /\ lastOp' = [op |-> IF e.defaultPrevented THEN "none" ELSE "load",
                   via |-> "event", key |-> Undefined, value |-> Undefined,
                   scope |-> settings, result |-> h.detail.result,
                   effects |-> <<>>, event |-> h,
                   area |-> Undefined, threw |-> FALSE]
     /\ UNCHANGED <<variant, localStorage, dataPrefix, written, tracked>>
     /\ UNCHANGED wsVars
     /\ UNCHANGED codecVars
     /\ UNCHANGED sharedVars

\* element.clear()
Clear ==
  LET r == IF variant = "lit"
           THEN clear(localStorage, dataPrefix)
           ELSE clearLegacy(localStorage, dataPrefix)
  IN /\ localStorage' = r.ls
     /\ lastOp' = [op |-> "clear", via |-> "call", key |-> Undefined,
                   value |-> Undefined, scope |-> Undefined,
                   result |-> r.result, effects |-> r.effects,
                   event |-> NoEvent, area |-> Undefined, threw |-> FALSE]
     /\ written' = <<>>
     /\ tracked' = TRUE
     /\ UNCHANGED <<variant, dataPrefix>>
     /\ UNCHANGED wsVars
     /\ UNCHANGED codecVars
     /\ UNCHANGED sharedVars

\* the storage events: <<storageArea, key, newValue>>.  The browser gives
\* storageArea the Storage object that changed; the test suite gives it a
\* string
StorageInputs ==
  {<<Str(LocalArea), Str(TestName), Str(KeyA)>>,
   <<Str(SessionArea), Str(TestName), Str(KeyA)>>,
   <<StorageObject("localStorage"), Str(ArcPrefix \o Dot \o KeyA),
     Str(RawTwelve)>>,
   <<StorageObject("sessionStorage"), Str(ArcPrefix \o Dot \o KeyA),
     Str(RawTwelve)>>,
   <<StorageObject("localStorage"), Str(ArcPrefix \o Dot \o KeyA), Null>>}

\* a storage event reaches the element's window listener
StorageChanged(storageArea, key, newValue) ==
  LET e == StorageEvent(storageArea, key, newValue) IN
  /\ lastOp' = [NoOp EXCEPT
                  !.op = "storage", !.via = "storage", !.key = key,
                  !.value = newValue, !.area = storageArea,
                  !.effects = IF variant = "lit" THEN winSettingsHandler(e)
                              ELSE winSettingsHandlerLegacy(e)]
  /\ UNCHANGED <<variant, localStorage, dataPrefix, written, tracked>>
  /\ UNCHANGED wsVars
  /\ UNCHANGED codecVars
  /\ UNCHANGED sharedVars

\* ------------------------------------------------------------------------
\* Workspace Store operations
\* ------------------------------------------------------------------------
MaxTimers == 3
MaxTime == 750
TickMs == 250

Workspace1 == Obj(<< <<KeyA, Num(12)>>, <<KeyB, Str(KeyA)>> >>)
Workspace2 == Obj(<< <<KeyB, Bool(TRUE)>> >>)

\* the values given to store(value)
WorkspaceValues == {Workspace1, Workspace2, Undefined}

\* the workspace-state-store requests:
\* <<detail.value, cancelable, defaultPrevented>>
WorkspaceRequests ==
  {<<Workspace2, TRUE, FALSE>>, <<Null, TRUE, FALSE>>,
   <<Workspace1, FALSE, FALSE>>, <<Workspace1, TRUE, TRUE>>}

\* the sets of fields whose localStorage.setItem throws during a flush
WriteFailures == {{}, {KeyA}}

\* what a call that returns no promise gives its caller
Returned(v) == <<"returned", v>>

\* element.store(value)
WorkspaceStore(value) ==
  LET r == IF variant = "lit"
           THEN workspaceStore(workspace, timers, value, now, nextTimerId)
           ELSE workspaceStoreLegacy(workspace, timers, value, now,
                                     nextTimerId)
  IN /\ nextTimerId <= MaxTimers
     /\ workspace' = r.el
     /\ timers' = r.timers
     /\ nextTimerId' = nextTimerId + 1
     /\ wsLast' = [NoWsOp EXCEPT !.op = "store", !.via = "call",
                                 !.value = value,
                                 !.result = Returned(Undefined),
                                 !.at = now, !.before = WsBefore]
     /\ burst' = Append(burst, value)
     /\ lastStoreAt' = now
     /\ UNCHANGED <<variant, now, flushes, answered>>
     /\ UNCHANGED prefVars
     /\ UNCHANGED codecVars
     /\ UNCHANGED sharedVars

\* a workspace-state-store event reaches the element's window listener
WorkspaceStateStore(value, cancelable, defaultPrevented) ==
  LET e == RequestEvent("workspace-state-store", cancelable, defaultPrevented,
                        Undefined, value, Undefined)
      r == IF variant = "lit"
           THEN workspaceChangeHandler(workspace, timers, e, now, nextTimerId)
           ELSE workspaceChangeHandlerLegacy(workspace, timers, e, now,
                                             nextTimerId)
  IN /\ nextTimerId <= MaxTimers
     /\ workspace' = r.el
     /\ timers' = r.timers
     /\ nextTimerId' = IF r.called = "store" THEN nextTimerId + 1
                       ELSE nextTimerId
     /\ wsLast' = [NoWsOp EXCEPT !.op = r.called, !.via = "event",
                                 !.value = value,
                                 !.result = r.e.detail.result,
                                 !.event = r.e,
                                 !.at = now, !.before = WsBefore]
     /\ burst' = IF r.called = "store" THEN Append(burst, value) ELSE burst
     /\ lastStoreAt' = IF r.called = "store" THEN now ELSE lastStoreAt
     /\ UNCHANGED <<variant, now, flushes, answered>>
     /\ UNCHANGED prefVars
     /\ UNCHANGED codecVars
     /\ UNCHANGED sharedVars

\* the timer t is due and its callback runs
TimerFires(t, failing) ==
  LET r == IF variant = "lit"
           THEN workspaceTimeout(localStorage, workspace, failing)
           ELSE workspaceTimeoutLegacy(localStorage, workspace, failing)
  IN /\ t \in timers
     /\ t.at <= now
     /\ timers' = timers \ {t}
     /\ workspace' = r.el
     /\ localStorage' = r.ls
     /\ wsLast' = [NoWsOp EXCEPT !.op = "flush", !.via = "timer",
                                 !.value = workspace.pendingWorkspace,
                                 !.effects = r.effects,
                                 !.at = now, !.covered = burst,
                                 !.failing = failing,
                                 !.before = WsBefore]
     /\ burst' = <<>>
     /\ flushes' = flushes + 1
     /\ answered' = answered + Len(burst)
     /\ UNCHANGED <<variant, nextTimerId, now, lastStoreAt>>
     /\ UNCHANGED <<dataPrefix, lastOp, written, tracked>>
     /\ UNCHANGED codecVars
     /\ UNCHANGED sharedVars

Minimum(S) == CHOOSE x \in S : \A y \in S : x <= y

\* time passes, up to the next deadline; a due callback runs first.  The
\* clock stops at MaxTime once no timer is armed.
Tick ==
  LET t == Minimum({now + TickMs} \cup {x.at : x \in timers}) IN
  /\ \A x \in timers : x.at > now
  /\ t <= MaxTime \/ timers # {}
  /\ now' = t
  /\ UNCHANGED <<variant, workspace, timers, nextTimerId, wsLast, burst,
                 lastStoreAt, flushes, answered>>
  /\ UNCHANGED prefVars
  /\ UNCHANGED codecVars
  /\ UNCHANGED sharedVars

\* element.load()
WorkspaceLoad ==
  /\ wsLast' = [NoWsOp EXCEPT
                  !.op = "load", !.via = "call",
                  !.result = IF variant = "lit"
                             THEN workspaceLoad(localStorage, workspace)
                             ELSE workspaceLoadLegacy(localStorage, workspace),
                  !.at = now, !.before = WsBefore]
  /\ UNCHANGED <<variant, workspace, timers, nextTimerId, now, burst,
                 lastStoreAt, flushes, answered>>
  /\ UNCHANGED prefVars
  /\ UNCHANGED codecVars
  /\ UNCHANGED sharedVars

\* a workspace-state-read event reaches the element's window listener
WorkspaceStateRead(cancelable, defaultPrevented) ==
  LET e == RequestEvent("workspace-state-read", cancelable, defaultPrevented,
                        Undefined, Undefined, Undefined)
      h == IF variant = "lit"
           THEN workspaceReadHandler(localStorage, workspace, e)
           ELSE workspaceReadHandlerLegacy(localStorage, workspace, e)
  IN /\ wsLast' = [NoWsOp EXCEPT
                     !.op = IF defaultPrevented THEN "none" ELSE "load",
                     !.via = "event", !.result = h.detail.result,
                     !.event = h, !.at = now, !.before = WsBefore]
     /\ UNCHANGED <<variant, workspace, timers, nextTimerId, now, burst,
                    lastStoreAt, flushes, answered>>
     /\ UNCHANGED prefVars
     /\ UNCHANGED codecVars
     /\ UNCHANGED sharedVars

\* element.clear()
WorkspaceClear ==
  LET r == IF variant = "lit"
           THEN workspaceClear(localStorage, workspace)
           ELSE workspaceClearLegacy(localStorage, workspace)
  IN /\ localStorage' = r.ls
     /\ wsLast' = [NoWsOp EXCEPT !.op = "clear", !.via = "call",
                                 !.result = Returned(Undefined),
                                 !.effects = r.effects,
                                 !.at = now, !.before = WsBefore]
     /\ UNCHANGED <<variant, workspace, timers, nextTimerId, now, burst,
                    lastStoreAt, flushes, answered>>
     /\ UNCHANGED <<dataPrefix, lastOp, written, tracked>>
     /\ UNCHANGED codecVars
     /\ UNCHANGED sharedVars

\* the values of the element's prefix configuration: the default, and unset
WorkspacePrefixes == {Str(ArcWorkspacePrefix), Undefined}

InitWorkspace ==
  /\ variant \in Variants
  /\ PrefsIdle
  /\ workspace \in {NewWorkspace(variant, c) : c \in WorkspacePrefixes}
  /\ WorkspaceQuiet
  /\ CodecIdle
  /\ SharedIdle

NextWorkspace ==
  \/ \E value \in WorkspaceValues : WorkspaceStore(value)
  \/ \E in \in WorkspaceRequests : WorkspaceStateStore(in[1], in[2], in[3])
  \/ \E t \in timers, failing \in WriteFailures : TimerFires(t, failing)
  \/ Tick
  \/ WorkspaceLoad
  \/ \E flags \in EventFlags : WorkspaceStateRead(flags[1], flags[2])
  \/ WorkspaceClear

SpecWorkspace == InitWorkspace /\ [][NextWorkspace]_vars

\* store calls and requests, the timer and load(), with the event loop
\* running every due timer callback and time passing
NextWorkspaceLive ==
  \/ \E value \in WorkspaceValues : WorkspaceStore(value)
  \/ \E in \in WorkspaceRequests : WorkspaceStateStore(in[1], in[2], in[3])
  \/ \E t \in timers, failing \in WriteFailures : TimerFires(t, failing)
  \/ Tick
  \/ WorkspaceLoad

SpecWorkspaceLive ==
  /\ InitWorkspace
  /\ [][NextWorkspaceLive]_vars
  /\ WF_vars(Tick)
  /\ WF_vars(\E t \in timers, failing \in WriteFailures :
               TimerFires(t, failing))

\* ------------------------------------------------------------------------
\* The codec on its own: wrap a value, then unwrap the result
\* ------------------------------------------------------------------------
CodecPrimitives ==
  {Bool(TRUE), Bool(FALSE), Num(0), Num(12), Num(0 - 3), Str(<<>>),
   Str(KeyA), Str(<<"1", "2">>), Str(<<"a", "\"", "\\", "b">>),
   Str(<<"n", "u", "l", "l">>)}

CodecArrays ==
  {Arr(<<>>)}
  \cup {Arr(<<p>>) : p \in CodecPrimitives \cup {Null}}
  \cup {Arr(<<Num(1), Arr(<<Str(KeyA), Null>>)>>)}

CodecObjects ==
  {Obj(<<>>)}
  \cup {Obj(<< <<TestName, p>> >>) : p \in CodecPrimitives \cup {Null}}
  \cup {Obj(<< <<ValueName, p>> >>) : p \in {Null, Num(12), Str(KeyA)}}
  \cup {Obj(<< <<KeyA, Num(12)>>,
               <<KeyB, Arr(<<Bool(TRUE), Obj(<< <<KeyC, Null>> >>)>>)>> >>)}

\* the JSON-serializable values, and null and undefined
CodecValues ==
  CodecPrimitives \cup CodecArrays \cup CodecObjects \cup {Null, Undefined}

InitCodec ==
  /\ variant \in Variants
  /\ PrefsIdle
  /\ WorkspaceIdle
  /\ codecPc = "in"
  /\ codecIn \in CodecValues
  /\ codecOut = Undefined
  /\ codecBack = Undefined
  /\ SharedIdle

CodecWrap ==
  /\ codecPc = "in"
  /\ codecOut' = IF variant = "lit" THEN wrap(codecIn) ELSE wrapLegacy(codecIn)
  /\ codecPc' = "wrapped"
  /\ UNCHANGED <<variant, codecIn, codecBack>>
  /\ UNCHANGED prefVars
  /\ UNCHANGED wsVars
  /\ UNCHANGED sharedVars

CodecUnwrap ==
  /\ codecPc = "wrapped"
  /\ codecBack' = IF variant = "lit" THEN unwrap(codecOut)
                  ELSE unwrapLegacy(codecOut)
  /\ codecPc' = "unwrapped"
  /\ UNCHANGED <<variant, codecIn, codecOut>>
  /\ UNCHANGED prefVars
  /\ UNCHANGED wsVars
  /\ UNCHANGED sharedVars

\* unwrap called on a value that no wrap produced
CodecUnwrapInput ==
  /\ codecPc = "in"
  /\ codecBack' = IF variant = "lit" THEN unwrap(codecIn)
                  ELSE unwrapLegacy(codecIn)
  /\ codecPc' = "decoded"
  /\ UNCHANGED <<variant, codecIn, codecOut>>
  /\ UNCHANGED prefVars
  /\ UNCHANGED wsVars
  /\ UNCHANGED sharedVars

NextCodec == CodecWrap \/ CodecUnwrap \/ CodecUnwrapInput

SpecCodec == InitCodec /\ [][NextCodec]_vars

\* ------------------------------------------------------------------------
\* Reading entries that no wrap produced: storage that holds text which is
\* not JSON under the prefixes of the Preferences Store and the Workspace
\* Store, and the load operations of both
\* ------------------------------------------------------------------------
RawUnquoted == <<"{", "v", "a", "l", "u", "e", ":", "1", "}">>
RawTrailing ==
  <<"{", "\"", "v", "a", "l", "u", "e", "\"", ":", "1", "2", "}", "x">>
RawWord == <<"a", "b">>
RawBlank == <<" ">>
RawEmpty == <<>>

\* strings that JSON.parse rejects
MalformedTexts ==
  {RawBroken, RawUnquoted, RawTrailing, RawWord, RawBlank, RawEmpty}

\* the entries a and b under each of the three prefixes, `broken` holding
\* the text m
DecodeSeed(m, broken) ==
  LET Entries(p) ==
        << <<p \o Dot \o KeyA, IF broken = KeyA THEN m ELSE RawStringA>>,
           <<p \o Dot \o KeyB, IF broken = KeyB THEN m ELSE RawTwelve>> >>
  IN Entries(ArcPrefix) \o Entries(ArcWorkspacePrefix) \o Entries(<<>>)

DecodeSeeds == {DecodeSeed(m, k) : m \in MalformedTexts, k \in {KeyA, KeyB}}

InitDecode ==
  /\ variant \in Variants
  /\ localStorage \in DecodeSeeds
  /\ dataPrefix \in {Str(ArcPrefix), Str(<<>>)}
  /\ lastOp = NoOp
  /\ written = <<>>
  /\ tracked = FALSE
  /\ WorkspaceIdle
  /\ CodecIdle
  /\ SharedIdle

NextDecode ==
  \/ \E scope \in Scopes : Load(scope)
  \/ \E settings \in ReadInputs, flags \in EventFlags :
       SettingsRead(settings, flags)
  \/ WorkspaceLoad
  \/ \E flags \in EventFlags : WorkspaceStateRead(flags[1], flags[2])

SpecDecode == InitDecode /\ [][NextDecode]_vars

\* ------------------------------------------------------------------------
\* Two Preferences Stores and two Workspace Stores on one window and one
\* localStorage
\* ------------------------------------------------------------------------
ShortPrefix == <<"_", "a", "r", "c">>
WsPrefix == <<"_", "w", "s", "_">>

\* the prefix configurations: apart, one a leading part of the others, and
\* empty and unset
SharedConfigs ==
  {[prefs |-> <<Str(ArcPrefix), Str(OtherPrefix)>>,
    spaces |-> <<Str(ArcWorkspacePrefix), Str(WsPrefix)>>],
   [prefs |-> <<Str(ShortPrefix), Str(ArcPrefix)>>,
    spaces |-> <<Str(ArcWorkspacePrefix), Str(WsPrefix)>>],
   [prefs |-> <<Str(<<>>), Null>>,
    spaces |-> <<Str(ArcWorkspacePrefix), Str(WsPrefix)>>]}

Keys(ls) == {ls[i][1] : i \in 1..Len(ls)}

\* the configured prefix as text
ConfiguredText(c) == IF Tag(c) = "string" THEN c[2] ELSE <<>>

PrefsWho(i) == ConfiguredText(prefs[i])

SpaceWho(i) ==
  ConfiguredText(IF variant = "lit" THEN spaces[i].dataPrefix
                 ELSE spaces[i].prefix)

\* the owners after the keys wkeys were written by who, for the keys left
Owned(keys, wkeys, who) ==
  IF keys = {} THEN <<>>
  ELSE [k \in keys |-> IF k \in wkeys THEN who ELSE owner[k]]

WithOwner(keys) == {<<k, owner[k]>> : k \in keys}

Written(effects) ==
  {effects[j][2] : j \in {n \in 1..Len(effects) : effects[n][1] = "setItem"}}

CountEffects(effects, tag) ==
  Cardinality({n \in 1..Len(effects) : effects[n][1] = tag})

\* the store() calls the elements make for the notifications among effects
RECURSIVE Relayed(_, _)
Relayed(effects, i) ==
  IF i > Len(effects) THEN 0
  ELSE (IF effects[i][1] = "dispatchEvent"
        THEN dispatchSettingsChanged(variant, localStorage, prefs, 1,
                                     effects[i][2], <<>>, 0).served
        ELSE 0)
       + Relayed(effects, i + 1)

\* what load() of the element gives on the storage ls
SharedLoadOf(kind, i, ls) ==
  IF kind = "preferences"
  THEN IF variant = "lit" THEN load(ls, prefs[i], Undefined)
       ELSE loadLegacy(ls, prefs[i], Undefined)
  ELSE IF variant = "lit" THEN workspaceLoad(ls, spaces[i])
       ELSE workspaceLoadLegacy(ls, spaces[i])

\* element.store(key, value) of the Preferences Store i
SharedStore(i, key, value) ==
  LET r == IF variant = "lit"
           THEN store(localStorage, prefs[i], key, value, FALSE)
           ELSE storeLegacy(localStorage, prefs[i], key, value, FALSE)
  IN /\ localStorage' = r.ls
     /\ owner' = Owned(Keys(r.ls), Written(r.effects), PrefsWho(i))
     /\ shLast' = [NoShOp EXCEPT
                     !.op = "store", !.kind = "preferences", !.by = i,
                     !.who = PrefsWho(i),
                     !.affected = WithOwner(Written(r.effects)
                                            \cap Keys(localStorage)),
                     !.writes = CountEffects(r.effects, "setItem"),
                     !.notifications = CountEffects(r.effects, "dispatchEvent"),
                     !.relayed = Relayed(r.effects, 1)]
     /\ UNCHANGED <<variant, prefs, spaces>>
     /\ UNCHANGED <<dataPrefix, lastOp, written, tracked>>
     /\ UNCHANGED wsVars
     /\ UNCHANGED codecVars

\* element.load() of an element; the entries it returned are those the
\* result depends on
SharedLoad(kind, i) ==
  /\ shLast' = [NoShOp EXCEPT
                  !.op = "load", !.kind = kind, !.by = i,
                  !.who = IF kind = "preferences" THEN PrefsWho(i)
                          ELSE SpaceWho(i),
                  !.affected =
                    WithOwner({k \in Keys(localStorage) :
                                 SharedLoadOf(kind, i, RemoveItem(localStorage, k))
                                   # SharedLoadOf(kind, i, localStorage)})]
  /\ UNCHANGED <<variant, prefs, spaces, owner>>
  /\ UNCHANGED prefVars
  /\ UNCHANGED wsVars
  /\ UNCHANGED codecVars

\* element.clear() of an element
SharedClear(kind, i) ==
  LET r == IF kind = "preferences"
           THEN IF variant = "lit" THEN clear(localStorage, prefs[i])
                ELSE clearLegacy(localStorage, prefs[i])
           ELSE IF variant = "lit" THEN workspaceClear(localStorage, spaces[i])
                ELSE workspaceClearLegacy(localStorage, spaces[i])
  IN /\ localStorage' = r.ls
     /\ owner' = Owned(Keys(r.ls), {}, <<>>)
     /\ shLast' = [NoShOp EXCEPT
                     !.op = "clear", !.kind = kind, !.by = i,
                     !.who = IF kind = "preferences" THEN PrefsWho(i)
                             ELSE SpaceWho(i),
                     !.affected = WithOwner(Keys(localStorage) \ Keys(r.ls))]
     /\ UNCHANGED <<variant, prefs, spaces>>
     /\ UNCHANGED <<dataPrefix, lastOp, written, tracked>>
     /\ UNCHANGED wsVars
     /\ UNCHANGED codecVars

\* the flush of the Workspace Store i: _store(value)
SharedFlush(i, value) ==
  LET r == IF variant = "lit"
           THEN workspaceFlush(localStorage, spaces[i].dataPrefix, value, {})
           ELSE workspaceFlushLegacy(localStorage, spaces[i].dataPrefix,
                                     value, {})
  IN /\ localStorage' = r.ls
     /\ owner' = Owned(Keys(r.ls), Written(r.effects), SpaceWho(i))
     /\ shLast' = [NoShOp EXCEPT
                     !.op = "flush", !.kind = "workspace", !.by = i,
                     !.who = SpaceWho(i),
                     !.affected = WithOwner(Written(r.effects)
                                            \cap Keys(localStorage)),
                     !.writes = CountEffects(r.effects, "setItem")]
     /\ UNCHANGED <<variant, prefs, spaces>>
     /\ UNCHANGED <<dataPrefix, lastOp, written, tracked>>
     /\ UNCHANGED wsVars
     /\ UNCHANGED codecVars

\* a settings-read event is dispatched on the window
SharedSettingsRead(cancelable, defaultPrevented) ==
  LET e == RequestEvent("settings-read", cancelable, defaultPrevented,
                        Undefined, Undefined, Undefined)
      r == dispatchSettingsRead(variant, localStorage, prefs, 1, e, 0)
  IN /\ shLast' = [NoShOp EXCEPT
                     !.op = "settings-read", !.kind = "preferences",
                     !.incoming = <<cancelable, defaultPrevented>>,
                     !.event = r.e, !.served = r.served]
     /\ UNCHANGED <<variant, prefs, spaces, owner>>
     /\ UNCHANGED prefVars
     /\ UNCHANGED wsVars
     /\ UNCHANGED codecVars

\* a settings-changed request is dispatched on the window
SharedSettingsChanged(name, value, cancelable, defaultPrevented) ==
  LET e == RequestEvent("settings-changed", cancelable, defaultPrevented,
                        name, value, Undefined)
      r == dispatchSettingsChanged(variant, localStorage, prefs, 1, e, <<>>, 0)
  IN /\ localStorage' = r.ls
     /\ owner' = Owned(Keys(r.ls), Written(r.effects), PrefsWho(1))
     /\ shLast' = [NoShOp EXCEPT
                     !.op = "settings-changed", !.kind = "preferences",
                     !.incoming = <<cancelable, defaultPrevented>>,
                     !.event = r.e, !.served = r.served,
                     !.writes = CountEffects(r.effects, "setItem"),
                     !.notifications = CountEffects(r.effects, "dispatchEvent"),
                     !.relayed = Relayed(r.effects, 1)]
     /\ UNCHANGED <<variant, prefs, spaces>>
     /\ UNCHANGED <<dataPrefix, lastOp, written, tracked>>
     /\ UNCHANGED wsVars
     /\ UNCHANGED codecVars

\* a workspace-state-read event is dispatched on the window
SharedWorkspaceRead(cancelable, defaultPrevented) ==
  LET e == RequestEvent("workspace-state-read", cancelable, defaultPrevented,
                        Undefined, Undefined, Undefined)
      r == dispatchWorkspaceRead(variant, localStorage, spaces, 1, e, 0)
  IN /\ shLast' = [NoShOp EXCEPT
                     !.op = "workspace-state-read", !.kind = "workspace",
                     !.incoming = <<cancelable, defaultPrevented>>,
                     !.event = r.e, !.served = r.served]
     /\ UNCHANGED <<variant, prefs, spaces, owner>>
     /\ UNCHANGED prefVars
     /\ UNCHANGED wsVars
     /\ UNCHANGED codecVars

InitShared ==
  /\ variant \in Variants
  /\ PrefsIdle
  /\ WorkspaceIdle
  /\ CodecIdle
  /\ \E c \in SharedConfigs :
       /\ prefs = c.prefs
       /\ spaces = <<NewWorkspace(variant, c.spaces[1]),
                     NewWorkspace(variant, c.spaces[2])>>
  /\ owner = <<>>
  /\ shLast = NoShOp

Elements == ({"preferences"} \X {1, 2}) \cup ({"workspace"} \X {1, 2})

NextShared ==
  \/ \E i \in {1, 2} : SharedStore(i, Str(KeyA), Num(12))
  \/ \E el \in Elements : SharedLoad(el[1], el[2])
  \/ \E el \in Elements : SharedClear(el[1], el[2])
  \/ \E i \in {1, 2} : SharedFlush(i, Workspace2)
  \/ \E flags \in EventFlags : SharedSettingsRead(flags[1], flags[2])
  \/ \E flags \in EventFlags :
       SharedSettingsChanged(Str(KeyB), Bool(TRUE), flags[1], flags[2])
  \/ \E flags \in EventFlags : SharedWorkspaceRead(flags[1], flags[2])

SpecShared == InitShared /\ [][NextShared]_vars

Next ==
  \/ \E in \in StoreInputs : Store(in[1], in[2], in[3])
  \/ \E in \in ChangeInputs :
       SettingsChanged(in[1][1], in[1][2], <<in[2][1], in[2][2]>>, in[2][3])
  \/ \E scope \in Scopes : Load(scope)
  \/ \E settings \in ReadInputs, flags \in EventFlags :
       SettingsRead(settings, flags)
  \/ Clear
  \/ \E in \in StorageInputs : StorageChanged(in[1], in[2], in[3])

Spec == Init /\ [][Next]_vars

\* ------------------------------------------------------------------------
\* Properties of the Preferences Store
\* ------------------------------------------------------------------------
RawFalse ==
  <<"{", "\"", "v", "a", "l", "u", "e", "\"", ":", "f", "a", "l", "s", "e",
    "}">>
RawTestObject ==
  <<"{", "\"", "v", "a", "l", "u", "e", "\"", ":", "{", "\"", "t", "e", "s",
    "t", "\"", ":", "t", "r", "u", "e", "}", "}">>

\* <<JSON text {"value":x}, x>> for the values that occur
WrappedTexts ==
  {<<RawStringA, Str(KeyA)>>, <<RawTrue, Bool(TRUE)>>,
   <<RawFalse, Bool(FALSE)>>, <<RawTwelve, Num(12)>>, <<RawNull, Null>>,
   <<RawTestObject, TestObject>>}

\* the configured prefix as text; an unset dataPrefix is the empty prefix
PrefixText == IF Tag(dataPrefix) = "string" THEN dataPrefix[2] ELSE <<>>

StoreSucceeded == lastOp.op = "store" /\ lastOp.result = Resolved(Undefined)

\* the setting names that have an entry under PrefixText + "."
StoredNames ==
  {Substr(localStorage[i][1], Len(PrefixText) + 1) :
     i \in {j \in 1..Len(localStorage) :
              StartsWith(localStorage[j][1], PrefixText \o <<".">>)}}

\* C1: after a successful store(k, v) with v neither null nor undefined,
\* made directly or through a settings-changed request, the storage maps
\* prefix + "." + k to exactly the JSON text {"value":v}.
C1_StoreWritesWrappedValue ==
  (StoreSucceeded /\ Tag(lastOp.value) \notin {"undefined", "null"})
  => \E w \in WrappedTexts :
       /\ w[2] = lastOp.value
       /\ GetItem(localStorage, PrefixText \o <<".">> \o lastOp.key[2])
            = Str(w[1])

C1_Witness ==
  /\ StoreSucceeded
  /\ lastOp.via = "event"
  /\ lastOp.value = TestObject
  /\ dataPrefix = Str(ArcPrefix)
  /\ GetItem(localStorage, ArcPrefix \o <<".">> \o KeyB) = Str(RawTestObject)

\* C2: with a string prefix, after store and clear calls (values neither
\* null nor undefined), load() returns exactly the keys stored since the
\* last clear(), each with the value of its most recent successful store.
C2_LoadReturnsLastWrites ==
  (lastOp.op = "load" /\ Tag(lastOp.scope) = "undefined" /\ tracked
     /\ Tag(dataPrefix) = "string")
  => lastOp.result = Resolved(written)

C2_Witness ==
  /\ lastOp.op = "load"
  /\ Tag(lastOp.scope) = "undefined"
  /\ tracked
  /\ dataPrefix = Str(ArcPrefix)
  /\ DOMAIN written = {KeyA, KeyB}
  /\ written[KeyA] = TestObject
  /\ written[KeyB] = Num(12)
  /\ Len(localStorage) = 4

\* C3: load() without a scope returns, for every entry prefix + "." + k
\* whose raw value is the JSON text {"value":x}, the key k mapped to x with
\* its type: string, boolean, number, and null as null; by a direct call and
\* by a settings-read request.
C3_LoadPreservesTypes ==
  (lastOp.op = "load" /\ Tag(lastOp.scope) = "undefined"
     /\ Tag(dataPrefix) = "string")
  => /\ Tag(lastOp.result) = "resolved"
     /\ \A i \in 1..Len(localStorage) : \A w \in WrappedTexts :
          (StartsWith(localStorage[i][1], PrefixText \o <<".">>)
             /\ localStorage[i][2] = w[1])
          => LET k == Substr(localStorage[i][1], Len(PrefixText) + 1) IN
             /\ k \in DOMAIN lastOp.result[2]
             /\ lastOp.result[2][k] = w[2]

C3_Witness ==
  /\ lastOp.op = "load"
  /\ lastOp.via = "event"
  /\ Tag(lastOp.scope) = "undefined"
  /\ dataPrefix = Str(ArcPrefix)
  /\ DOMAIN lastOp.result[2] = {KeyA, KeyB, KeyC, KeyD}
  /\ lastOp.result[2][KeyA] = Str(KeyA)
  /\ lastOp.result[2][KeyB] = Bool(TRUE)
  /\ lastOp.result[2][KeyC] = Num(12)
  /\ lastOp.result[2][KeyD] = Null

\* C4: load(scope) with a scope list returns exactly the stored setting
\* names that are members of scope, by a direct call and by a settings-read
\* request carrying detail.settings.
C4_LoadScoped ==
  (lastOp.op = "load" /\ Tag(lastOp.scope) = "array"
     /\ Tag(dataPrefix) = "string")
  => /\ Tag(lastOp.result) = "resolved"
     /\ DOMAIN lastOp.result[2]
          = {k \in StoredNames :
               \E i \in 1..Len(lastOp.scope[2]) : lastOp.scope[2][i] = Str(k)}

C4_Witness ==
  /\ lastOp.op = "load"
  /\ lastOp.scope = Arr(<<Str(KeyA), Str(KeyC)>>)
  /\ dataPrefix = Str(ArcPrefix)
  /\ StoredNames = {KeyA, KeyB, KeyC, KeyD}
  /\ DOMAIN lastOp.result[2] = {KeyA, KeyC}

\* C7: every successful store(key, value) emits exactly one settings-changed
\* notification, after the write, not cancelable, with detail.name the
\* setting name and detail.value the original value.
C7_StoreNotifiesOnce ==
  StoreSucceeded
  => /\ Len(lastOp.effects) = 2
     /\ lastOp.effects[1][1] = "setItem"
     /\ lastOp.effects[2][1] = "dispatchEvent"
     /\ lastOp.effects[2][2].type = "settings-changed"
     /\ ~lastOp.effects[2][2].cancelable
     /\ lastOp.effects[2][2].detail.name = lastOp.key
     /\ lastOp.effects[2][2].detail.value = lastOp.value

C7_Witness ==
  /\ StoreSucceeded
  /\ lastOp.via = "call"
  /\ lastOp.value = Num(12)
  /\ lastOp.effects[2][2].detail = [name |-> Str(KeyA), value |-> Num(12)]

\* C8: when localStorage.setItem throws, store(key, value) completes with a
\* rejection carrying that error, emits no notification and leaves the
\* storage unchanged; the rejection is also what a write request gets in
\* detail.result.
C8_WriteFailureRejects ==
  [][(lastOp'.op = "store" /\ lastOp'.threw)
     => /\ lastOp'.result = Rejected(QuotaExceededError)
        /\ lastOp'.effects = <<>>
        /\ localStorage' = localStorage
        /\ (lastOp'.via = "event"
              => lastOp'.event.detail.result = Rejected(QuotaExceededError))]_vars

C8_Witness ==
  /\ lastOp.op = "store"
  /\ lastOp.threw
  /\ lastOp.via = "event"
  /\ lastOp.event.detail.result = Rejected(QuotaExceededError)

\* C6: every entry written by a Preferences Store store(k, v) or by a
\* Workspace Store flush is JSON text of the shape {"value": <original
\* value>}, for every value v including null and undefined.
IsWrapperOf(text, v) ==
  LET p == JSONParse(text) IN
  /\ p.ok
  /\ Tag(p.val) = "object"
  /\ GetProp(p.val, ValueName) = v

C6_EveryWrittenEntryIsWrapped ==
  /\ StoreSucceeded
     => IsWrapperOf(lastOp.effects[1][3], lastOp.value)
  /\ (wsLast.op = "flush" /\ ~Falsy(wsLast.value))
     => \A i \in 1..Len(wsLast.effects) :
          \E j \in 1..Len(wsLast.value[2]) :
            IsWrapperOf(wsLast.effects[i][3], wsLast.value[2][j][2])

\* the storage area the event is about is the local one
IdentifiesLocal(area) ==
  area = Str(LocalArea) \/ area = StorageObject("localStorage")

\* C15: a storage event makes the element emit exactly one settings-changed
\* notification carrying the event's key and newValue when its storageArea
\* identifies the local area, and none otherwise; nothing is written to or
\* deleted from the storage.
C15_StorageEventRelayed ==
  lastOp.op = "storage"
  => IF IdentifiesLocal(lastOp.area)
     THEN /\ Len(lastOp.effects) = 1
          /\ lastOp.effects[1][1] = "dispatchEvent"
          /\ lastOp.effects[1][2].type = "settings-changed"
          /\ lastOp.effects[1][2].detail
               = [name |-> lastOp.key, value |-> lastOp.value]
     ELSE lastOp.effects = <<>>

\* the settings-changed request passed the handler's guard
ChangeRequestHandled ==
  /\ lastOp.via = "event"
  /\ lastOp.event.type = "settings-changed"
  /\ lastOp.event.propagationStopped

\* C16: a cancelable, not yet handled settings-changed request without a
\* name gets the rejection "Name is not set." as its result and causes no
\* write and no notification; one with a name gets as its result the
\* completion of store(name, value), whose effects are the only ones.
C16_ChangeRequestResult ==
  [][ChangeRequestHandled'
     => IF Falsy(lastOp'.key)
        THEN /\ lastOp'.event.detail.result = Rejected(NameNotSet)
             /\ lastOp'.effects = <<>>
             /\ localStorage' = localStorage
        ELSE LET r == IF variant = "lit"
                      THEN store(localStorage, dataPrefix, lastOp'.key,
                                 lastOp'.value, lastOp'.threw)
                      ELSE storeLegacy(localStorage, dataPrefix, lastOp'.key,
                                       lastOp'.value, lastOp'.threw)
             IN /\ lastOp'.event.detail.result = r.result
                /\ lastOp'.effects = r.effects
                /\ localStorage' = r.ls]_vars

C16_Witness ==
  /\ ChangeRequestHandled
  /\ lastOp.key = Undefined
  /\ lastOp.event.detail.result = Rejected(NameNotSet)
  /\ lastOp.effects = <<>>
  /\ Len(localStorage) = 5

\* C18: a settings-read or settings-changed request that is not cancelable
\* is ignored: no result is set on its detail, no load is made for it and
\* nothing is written.
C18_NonCancelableIgnored ==
  (lastOp.via = "event" /\ ~lastOp.event.cancelable)
  => /\ lastOp.event.detail.result = Unset
     /\ lastOp.op = "none"
     /\ lastOp.effects = <<>>

\* C25: the legacy and the current Preferences Store are observationally
\* equivalent: from every reachable storage and for every dataPrefix, each
\* store, load(scope) and clear call of one variant leaves the same storage
\* contents, gives the same load result and emits the same notifications as
\* the call of the other, and in each variant load() finds under k the
\* value stored with store(k, v).
C25_VariantsEquivalent ==
  /\ \A in \in StoreInputs :
       LET a == store(localStorage, dataPrefix, in[1], in[2], in[3])
           b == storeLegacy(localStorage, dataPrefix, in[1], in[2], in[3])
       IN a.ls = b.ls /\ a.result = b.result /\ a.effects = b.effects
  /\ \A scope \in Scopes :
       load(localStorage, dataPrefix, scope)
         = loadLegacy(localStorage, dataPrefix, scope)
  /\ clear(localStorage, dataPrefix).ls
       = clearLegacy(localStorage, dataPrefix).ls
  /\ (lastOp.op = "load" /\ Tag(lastOp.scope) = "undefined" /\ tracked)
       => /\ lastOp.result[1] = "resolved"
          /\ \A k \in DOMAIN written :
               /\ k \in DOMAIN lastOp.result[2]
               /\ lastOp.result[2][k] = written[k]

\* ------------------------------------------------------------------------
\* Properties of the Workspace Store
\* ------------------------------------------------------------------------
WorkspacePrefixText ==
  IF Tag(workspace.dataPrefix) = "string" THEN workspace.dataPrefix[2]
  ELSE <<>>

\* the writes a flush of the workspace value v makes when the writes of the
\* fields in `failing` throw
ExpectedWrites(v, failing) ==
  IF Falsy(v) THEN <<>>
  ELSE SelectSeq(v[2], LAMBDA p : p[1] \notin failing)

\* C9: when store(v1) is followed by store(v2) before v1's timer fired, v1
\* is never flushed: one flush answers the whole burst, it happens 500 ms
\* after the latest store call and writes only the fields of the latest
\* value.
C9_DebounceKeepsLatest ==
  wsLast.op = "flush"
  => /\ Len(wsLast.covered) >= 1
     /\ wsLast.at = lastStoreAt + 500
     /\ wsLast.value = wsLast.covered[Len(wsLast.covered)]
     /\ LET ws == ExpectedWrites(wsLast.value, wsLast.failing) IN
        /\ Len(wsLast.effects) = Len(ws)
        /\ \A i \in 1..Len(ws) :
             /\ wsLast.effects[i][1] = "setItem"
             /\ wsLast.effects[i][2] = WorkspacePrefixText \o <<".">> \o ws[i][1]
             /\ \E w \in WrappedTexts :
                  w[2] = ws[i][2] /\ wsLast.effects[i][3] = w[1]

C9_Witness ==
  /\ wsLast.op = "flush"
  /\ wsLast.covered = <<Workspace1, Workspace2>>
  /\ wsLast.failing = {}
  /\ lastStoreAt > 0
  /\ wsLast.at = lastStoreAt + 500
  /\ Len(wsLast.effects) = 1
  /\ GetItem(localStorage, WorkspacePrefixText \o <<".">> \o KeyB)
       = Str(RawTrue)
  /\ GetItem(localStorage, WorkspacePrefixText \o <<".">> \o KeyA) = Null

WsUntouched ==
  /\ workspace.pendingWorkspace = wsLast.before.pendingWorkspace
  /\ workspace.workspaceWriteDebounce = wsLast.before.workspaceWriteDebounce
  /\ timers = wsLast.before.timers

\* the request event was handled by the element (not ignored)
WsRequestHandled ==
  /\ wsLast.via = "event"
  /\ wsLast.event.type = "workspace-state-store"
  /\ wsLast.event.propagationStopped

\* C10 as stated: store() with a falsy value, called directly or for a write
\* request, rejects before any timer is scheduled and leaves the pending
\* value and its timer as they were.
C10_FalsyStoreRejects ==
  (Falsy(wsLast.value)
     /\ ((wsLast.via = "call" /\ wsLast.op = "store") \/ WsRequestHandled))
  => /\ Tag(wsLast.result) = "rejected"
     /\ WsUntouched

\* C10 amended: a write request with a falsy value is rejected with "Value
\* is not set." before store() is called, and the pending value and the
\* timer stay as they were; a direct store(falsy) call is not rejected: it
\* replaces the pending value, cancels the armed timer and arms a new one.
C10_FalsyValueRejectedByRequestOnly ==
  /\ (WsRequestHandled /\ Falsy(wsLast.value))
     => /\ wsLast.result = Rejected(ValueNotSet)
        /\ wsLast.op = "none"
        /\ WsUntouched
  /\ (wsLast.via = "call" /\ wsLast.op = "store" /\ Falsy(wsLast.value))
     => /\ wsLast.result = Returned(Undefined)
        /\ workspace.pendingWorkspace = wsLast.value
        /\ workspace.workspaceWriteDebounce # 0
        /\ timers = {[id |-> workspace.workspaceWriteDebounce,
                      at |-> wsLast.at + 500]}

C10_Witness ==
  /\ WsRequestHandled
  /\ wsLast.value = Null
  /\ wsLast.result = Rejected(ValueNotSet)
  /\ workspace.pendingWorkspace = Workspace1
  /\ workspace.workspaceWriteDebounce # 0
  /\ timers # {}
  /\ now > lastStoreAt

\* the prefix the element is configured with, as text: the dataPrefix
\* property of the current element, the prefix property of the legacy one
ConfiguredPrefixText ==
  LET c == IF variant = "lit" THEN workspace.dataPrefix ELSE workspace.prefix
  IN IF Tag(c) = "string" THEN c[2] ELSE <<>>

\* what load() returns in the current state
WorkspaceLoaded ==
  IF variant = "lit" THEN workspaceLoad(localStorage, workspace)[2]
  ELSE workspaceLoadLegacy(localStorage, workspace)[2]

\* every field of the flushed value is in the storage under the configured
\* prefix, and load() returns it
FlushedUnderConfiguredPrefix ==
  LET ps == wsLast.value[2] IN
  \A i \in 1..Len(ps) :
    /\ \E w \in WrappedTexts :
         /\ w[2] = ps[i][2]
         /\ GetItem(localStorage, ConfiguredPrefixText \o <<".">> \o ps[i][1])
              = Str(w[1])
    /\ ps[i][1] \in DOMAIN WorkspaceLoaded
    /\ WorkspaceLoaded[ps[i][1]] = ps[i][2]

\* C11: a store(v) call is eventually answered by a flush, and the flush
\* that answers a truthy value (the latest stored one) leaves every field f
\* of it under the key configured prefix + "." + f (the storage accepting
\* the writes), so that load() returns the field with its value.
C11_StoredValueEventuallyWritten ==
  (burst # <<>>)
  ~> (wsLast.op = "flush"
        /\ ((~Falsy(wsLast.value) /\ wsLast.failing = {})
              => FlushedUnderConfiguredPrefix))

\* C14: clear() of a Workspace Store removes every entry the instance's own
\* flush wrote and every key that starts with the configured prefix, so
\* that load() right after clear() returns an empty mapping, with the
\* default prefix and with an unset one.
C14_ClearRemovesOwnEntries ==
  wsLast.op = "clear"
  => /\ WorkspaceLoaded = <<>>
     /\ \A i \in 1..Len(localStorage) :
          ~StartsWith(localStorage[i][1], ConfiguredPrefixText)

\* C17: a cancelable, not yet handled workspace-state-store request with a
\* falsy value gets the rejection "Value is not set." as its result, arms no
\* timer and changes neither the pending value nor the storage; one with a
\* value makes the store(value) call (pending value set, one timer armed 500
\* ms ahead) and gets no result.
C17_WorkspaceWriteRequest ==
  WsRequestHandled
  => IF Falsy(wsLast.value)
     THEN /\ wsLast.event.detail.result = Rejected(ValueNotSet)
          /\ wsLast.op = "none"
          /\ wsLast.effects = <<>>
          /\ WsUntouched
     ELSE /\ wsLast.event.detail.result = Unset
          /\ wsLast.op = "store"
          /\ wsLast.effects = <<>>
          /\ workspace.pendingWorkspace = wsLast.value
          /\ workspace.workspaceWriteDebounce # 0
          /\ timers = {[id |-> workspace.workspaceWriteDebounce,
                        at |-> wsLast.at + 500]}

C17_Witness ==
  /\ WsRequestHandled
  /\ wsLast.value = Workspace2
  /\ wsLast.op = "store"
  /\ wsLast.event.detail.result = Unset
  /\ wsLast.before.pendingWorkspace = Workspace1
  /\ workspace.pendingWorkspace = Workspace2
  /\ Cardinality(timers) = 1

\* the number of store calls made: each takes one timer handle
StoreCalls == nextTimerId - 1

\* C20: an element has at most one armed timer, the one of its latest store
\* call; the flushes never outnumber the store calls, and one flush answers
\* all the store calls made since the previous flush.
C20_AtMostOneTimer ==
  /\ Cardinality(timers) <= 1
  /\ (timers # {}) <=> (workspace.workspaceWriteDebounce # 0)
  /\ (timers # {}) <=> (burst # <<>>)
  /\ \A t \in timers :
       t = [id |-> workspace.workspaceWriteDebounce, at |-> lastStoreAt + 500]
  /\ flushes <= answered
  /\ answered + Len(burst) = StoreCalls
  /\ wsLast.op = "flush" => (Len(wsLast.covered) >= 1 /\ burst = <<>>)

C20_Witness ==
  /\ wsLast.op = "flush"
  /\ Len(wsLast.covered) = 3
  /\ flushes = 1
  /\ StoreCalls = 3
  /\ timers = {}

\* C24: when the write of one field throws during a flush, the entry of
\* that field is left as it was and every other field of the pending value
\* is written; the flush reports nothing, no timer is armed after it (so
\* nothing is retried) and the pending value is cleared.
C24_FailingWriteSkipsOnlyThatField ==
  [][(flushes' = flushes + 1 /\ wsLast'.failing # {})
     => LET v == workspace.pendingWorkspace
            Entry(name) == WorkspacePrefixText \o Dot \o name
        IN /\ wsLast'.op = "flush"
           /\ wsLast'.result = Unset
           /\ workspace'.pendingWorkspace = Undefined
           /\ workspace'.workspaceWriteDebounce = 0
           /\ timers' = {}
           /\ ~Falsy(v)
                => \A i \in 1..Len(v[2]) :
                     IF v[2][i][1] \in wsLast'.failing
                     THEN GetItem(localStorage', Entry(v[2][i][1]))
                            = GetItem(localStorage, Entry(v[2][i][1]))
                     ELSE \E w \in WrappedTexts :
                            /\ w[2] = v[2][i][2]
                            /\ GetItem(localStorage', Entry(v[2][i][1]))
                                 = Str(w[1])]_vars

C24_Witness ==
  /\ wsLast.op = "flush"
  /\ wsLast.failing = {KeyA}
  /\ wsLast.value = Workspace1
  /\ Len(wsLast.effects) = 1
  /\ GetItem(localStorage, WorkspacePrefixText \o Dot \o KeyA) = Null
  /\ GetItem(localStorage, WorkspacePrefixText \o Dot \o KeyB)
       = Str(RawStringA)
  /\ workspace.pendingWorkspace = Undefined
  /\ workspace.workspaceWriteDebounce = 0
  /\ timers = {}

\* C26: a pending workspace value is held only while the flush timer of
\* the latest store call is armed; the timer callback resets the handle,
\* flushes the value that was pending and clears it, so with no timer armed
\* nothing is pending and every flush writes the value of a store call made
\* after the previous flush.
C26_PendingOnlyWhileArmed ==
  /\ workspace.pendingWorkspace # Undefined
       => /\ workspace.workspaceWriteDebounce # 0
          /\ timers = {[id |-> workspace.workspaceWriteDebounce,
                         at |-> lastStoreAt + WriteDelay]}
  /\ workspace.workspaceWriteDebounce = 0
       => (workspace.pendingWorkspace = Undefined /\ timers = {})
  /\ wsLast.op = "flush"
       => /\ workspace.workspaceWriteDebounce = 0
          /\ workspace.pendingWorkspace = Undefined
          /\ wsLast.before.workspaceWriteDebounce # 0
          /\ wsLast.value = wsLast.before.pendingWorkspace
          /\ Len(wsLast.covered) >= 1
          /\ wsLast.value = wsLast.covered[Len(wsLast.covered)]
  /\ flushes + Len(burst) <= StoreCalls

C26_Witness ==
  /\ wsLast.op = "flush"
  /\ flushes = 2
  /\ wsLast.covered = <<Workspace2>>
  /\ wsLast.before.pendingWorkspace = Workspace2
  /\ workspace.pendingWorkspace = Undefined
  /\ timers = {}
  /\ GetItem(localStorage, WorkspacePrefixText \o Dot \o KeyA)
       = Str(RawTwelve)
  /\ GetItem(localStorage, WorkspacePrefixText \o Dot \o KeyB) = Str(RawTrue)

\* ------------------------------------------------------------------------
\* Properties of elements that share the window and the storage
\* ------------------------------------------------------------------------
\* the entries of ls whose key does not start with prefix, in their order
RECURSIVE Kept(_, _)
Kept(ls, prefix) ==
  IF ls = <<>> THEN <<>>
  ELSE IF StartsWith(Head(ls)[1], prefix) THEN Kept(Tail(ls), prefix)
  ELSE <<Head(ls)>> \o Kept(Tail(ls), prefix)

\* C12: clear() of a Preferences Store, and of a Workspace Store with a
\* string dataPrefix, removes every key that starts with the element's
\* prefix, whatever the number and order of the keys, and leaves every
\* other entry as it was; with an empty or unset dataPrefix the Preferences
\* Store removes all entries.
C12_ClearRemovesPrefixedKeys ==
  [][(/\ shLast'.op = "clear"
      /\ \/ shLast'.kind = "preferences"
         \/ Tag(spaces[shLast'.by].dataPrefix) = "string")
     => /\ localStorage' = Kept(localStorage, shLast'.who)
        /\ (shLast'.kind = "preferences" /\ Falsy(prefs[shLast'.by]))
             => localStorage' = <<>>]_vars

C12_Witness ==
  /\ shLast.op = "clear"
  /\ shLast.kind = "preferences"
  /\ shLast.who = ShortPrefix
  /\ Cardinality(shLast.affected) = 3
  /\ Len(localStorage) = 1

\* C13: no store, load, clear or flush of an element returns, overwrites or
\* removes an entry that an element configured with a different prefix
\* wrote.
C13_PrefixesNeverCollide ==
  shLast.op \in {"store", "load", "clear", "flush"}
  => \A a \in shLast.affected : a[2] = shLast.who

\* C19: a request event that is already cancelled when it is dispatched is
\* served by no element (no result, no read, no write); every request event
\* is served by at most one of the attached elements, and a write request
\* makes at most one write and one notification, none of them relayed into a
\* further write.
C19_RequestServedOnce ==
  shLast.op \in {"settings-read", "settings-changed", "workspace-state-read"}
  => /\ shLast.incoming[2]
          => /\ shLast.served = 0
             /\ shLast.event.detail.result = Unset
             /\ shLast.writes = 0
             /\ shLast.notifications = 0
     /\ shLast.served <= 1
     /\ shLast.writes = (IF shLast.op = "settings-changed"
                         THEN shLast.served ELSE 0)
     /\ shLast.notifications = shLast.writes
     /\ shLast.relayed = 0

\* C23: the notification that store() dispatches reaches the write-request
\* listener of every attached Preferences Store, its own included, and none
\* of them takes it for a write request: a store(key, value) call that the
\* storage accepts makes one write and one notification, a served write
\* request makes one of each per store() call, and no store() call is ever
\* made for a notification, so nothing is left to run after the call.
C23_NoFeedbackLoop ==
  /\ shLast.relayed = 0
  /\ shLast.op = "store"
       => /\ shLast.writes = 1
          /\ shLast.notifications = 1
          /\ Len(prefs) = 2
  /\ shLast.op = "settings-changed"
       => /\ shLast.notifications = shLast.served
          /\ shLast.writes = shLast.served

C23_Witness ==
  /\ shLast.op = "store"
  /\ shLast.by = 2
  /\ Len(prefs) = 2
  /\ shLast.writes = 1
  /\ shLast.notifications = 1
  /\ shLast.relayed = 0
  /\ \E i \in 1..Len(localStorage) :
       /\ localStorage[i][1] = PrefsWho(2) \o Dot \o KeyA
       /\ localStorage[i][2] = RawTwelve

\* ------------------------------------------------------------------------
\* Properties of the codec
\* ------------------------------------------------------------------------
WrapperOpen == <<"{", "\"", "v", "a", "l", "u", "e", "\"", ":">>
WrapperClose == <<"}">>

\* C5: for every JSON-serializable value v that is neither null nor
\* undefined (falsy ones and nested objects and arrays included),
\* unwrap(wrap(v)) is deep-equal to v and wrap(v) is the JSON text of the
\* object {value: v}.
C5_CodecRoundTrip ==
  Tag(codecIn) \notin {"undefined", "null"}
  => /\ codecPc \in {"wrapped", "unwrapped"}
        => codecOut = Str(WrapperOpen \o JSONStringify(codecIn) \o WrapperClose)
     /\ codecPc = "unwrapped" => codecBack = codecIn

C5_Witness ==
  /\ codecPc = "unwrapped"
  /\ codecIn = Obj(<< <<KeyA, Num(12)>>,
                      <<KeyB, Arr(<<Bool(TRUE), Obj(<< <<KeyC, Null>> >>)>>)>> >>)
  /\ codecBack = codecIn
  /\ Len(codecOut[2]) = 40

\* C22: wrap returns undefined for undefined and null for null, without any
\* JSON text; unwrap returns a falsy input (undefined, null, false, 0, the
\* empty string) and every input that is not a string exactly as given.
C22_NullishAndNonStringsPassThrough ==
  /\ (codecPc = "wrapped" /\ Tag(codecIn) \in {"undefined", "null"})
       => codecOut = codecIn
  /\ (codecPc = "decoded" /\ (Falsy(codecIn) \/ Tag(codecIn) # "string"))
       => codecBack = codecIn

C22_Witness ==
  /\ codecPc = "decoded"
  /\ codecIn = Null
  /\ codecBack = Null

\* ------------------------------------------------------------------------
\* Properties of load over entries that are not JSON
\* ------------------------------------------------------------------------
\* what the seeded texts stand for when every text that JSON.parse rejects
\* decodes to undefined
DecodedAs(text) ==
  IF text = RawStringA THEN Str(KeyA)
  ELSE IF text = RawTwelve THEN Num(12)
  ELSE Undefined

\* the same, with the empty string returned as it is
DecodedOrEmpty(text) ==
  IF text = RawEmpty THEN Str(RawEmpty) ELSE DecodedAs(text)

\* result is a resolved load that maps every entry under prefix (within
\* scope, when a scope is given) to what Decoded says of its text
LoadedAs(result, prefix, scope, Decoded(_)) ==
  /\ result[1] = "resolved"
  /\ \A i \in 1..Len(localStorage) :
       LET key == localStorage[i][1]
           name == Substr(key, Len(prefix))
       IN (StartsWith(key, prefix)
             /\ (Falsy(scope) \/ ~NotInArray(scope[2], Str(name))))
          => /\ name \in DOMAIN result[2]
             /\ result[2][name] = Decoded(localStorage[i][2])

\* C21 as stated: every string that is not valid JSON decodes to undefined,
\* so load() of either store resolves, maps the key of a malformed entry to
\* undefined and still returns every other entry.
C21_MalformedDecodesToUndefined ==
  /\ lastOp.op = "load"
       => LoadedAs(lastOp.result, PrefixText \o Dot, lastOp.scope, DecodedAs)
  /\ wsLast.op = "load"
       => LoadedAs(wsLast.result, WorkspacePrefixText \o Dot, Undefined,
                   DecodedAs)

\* C21: every non-empty string that is not valid JSON decodes to undefined
\* and the empty string decodes to itself, so load() of either store
\* resolves, maps the key of a malformed entry to undefined (to "" when the
\* entry is empty) and still returns every other entry.
C21_MalformedDecodesToUndefinedOrEmpty ==
  /\ lastOp.op = "load"
       => LoadedAs(lastOp.result, PrefixText \o Dot, lastOp.scope,
                   DecodedOrEmpty)
  /\ wsLast.op = "load"
       => LoadedAs(wsLast.result, WorkspacePrefixText \o Dot, Undefined,
                   DecodedOrEmpty)

C21_Witness ==
  /\ lastOp.op = "load"
  /\ Tag(lastOp.scope) = "undefined"
  /\ dataPrefix = Str(ArcPrefix)
  /\ GetItem(localStorage, ArcPrefix \o Dot \o KeyA) = Str(RawBroken)
  /\ DOMAIN lastOp.result[2] = {KeyA, KeyB}
  /\ lastOp.result[2][KeyA] = Undefined
  /\ lastOp.result[2][KeyB] = Num(12)
  /\ wsLast.op = "load"
  /\ DOMAIN wsLast.result[2] = {KeyA, KeyB}
  /\ wsLast.result[2][KeyA] = Undefined
  /\ wsLast.result[2][KeyB] = Num(12)

====
